---- MODULE Spec2Model ----
(***************************************************************************)
(* Chunked upload endpoints of backend/app/api/upload.py                   *)
(* (start_chunked_upload, upload_chunk, complete_chunked_upload) as a      *)
(* state machine over the three directories the handlers share:            *)
(*   uploads/sessions/<upload_id>.json   (sessions)                        *)
(*   uploads/chunks/<upload_id>/chunk_NNNN (chunks)                        *)
(*   uploads/audio/<user_id>/<file_id><ext> (audio)                        *)
(* A handler is a coroutine: it can be suspended at every await, so each   *)
(* request in flight is a record in `calls` with a program counter, and    *)
(* one action is the code between two awaits.  Every `async with           *)
(* aiofiles.open(...)` block that only reads or only writes one file is    *)
(* one step; the block that assembles the final file is one step for the   *)
(* open (which truncates) and one per chunk copied, each write reaching    *)
(* the file at the writer's own offset.                                    *)
(***************************************************************************)
EXTENDS Integers, Sequences, FiniteSets, TLC

\* ------------------------------------------------------------------ bounds
MaxUploads == 1
MaxSessions == 2
MaxCalls == 2
MaxChunks == 2
MaxStartSize == 3
MaxStartChunk == 2

\* --------------------------------------------------------------- constants
MAX_FILE_SIZE == 100 * 1024 * 1024
CHUNK_SIZE == 5 * 1024 * 1024
AudioAndPdf ==
    {"audio/webm", "audio/wav", "audio/mp3", "audio/mpeg", "audio/ogg",
     "audio/m4a", "audio/aac", "application/pdf"}

ALLOWED_AUDIO_TYPES ==
    {"audio/webm", "audio/wav", "audio/mp3", "audio/mpeg", "audio/ogg",
     "audio/m4a", "audio/aac"}

HTTP_200_OK == 200
HTTP_400_BAD_REQUEST == 400
HTTP_403_FORBIDDEN == 403
HTTP_404_NOT_FOUND == 404
HTTP_413_REQUEST_ENTITY_TOO_LARGE == 413
HTTP_500_INTERNAL_SERVER_ERROR == 500

\* ------------------------------------------------------------------ inputs
Users == {"u1", "u2"}
\* a filename is its sequence of characters: one with an extension, one without
NameWithExt == <<"r", ".", "w">>
NameWithoutExt == <<"r">>
MimeTypes == {"audio/wav", "application/pdf"}
\* declared sizes in units of the chunk size, so that total_chunks is the size
FileSizes == (0 .. MaxChunks) \cup {MAX_FILE_SIZE + 1}
ChunkSizes == {0, 1}
\* the bytes a client sends as one chunk
Contents == {<<1>>, <<2, 3>>}
\* the uuid4() pairs the server ever draws, in the order drawn
UploadIds == 1 .. MaxSessions
CallIds == 1 .. MaxCalls
ChunkNumbers == 0 .. (MaxChunks + 1)

\* ----------------------------------------------------------------- helpers
Range(s) == {s[i] : i \in DOMAIN s}

RECURSIVE SortedSeq(_)
\* sorted(S) of a finite set of integers
SortedSeq(S) ==
    IF S = {} THEN <<>>
    ELSE LET m == CHOOSE x \in S : \A y \in S : x <= y
         IN <<m>> \o SortedSeq(S \ {m})

\* list(range(1, n + 1))
RangeList(n) == [i \in 1 .. (IF n > 0 THEN n ELSE 0) |-> i]

RECURSIVE InsertSorted(_, _)
InsertSorted(lst, k) ==
    IF lst = <<>> THEN <<k>>
    ELSE IF k < Head(lst) THEN <<k>> \o lst
    ELSE <<Head(lst)>> \o InsertSorted(Tail(lst), k)

RECURSIVE SortList(_)
\* lst.sort()
SortList(lst) ==
    IF lst = <<>> THEN <<>> ELSE InsertSorted(SortList(Tail(lst)), Head(lst))

AppendOnly(lst, k) == Append(lst, k)

\* lst.append(k); lst.sort()
AppendAndSort(lst, k) == SortList(Append(lst, k))

\* os.path.splitext(filename)[1]: the text from the last dot on, unless only
\* dots precede it
Splitext1(filename) ==
    LET dots == {i \in DOMAIN filename : filename[i] = "."}
    IN IF dots = {} THEN <<>>
       ELSE LET d == CHOOSE i \in dots : \A j \in dots : j <= i
            IN IF \E i \in 1 .. (d - 1) : filename[i] # "."
               THEN SubSeq(filename, d, Len(filename))
               ELSE <<>>

\* os.path.splitext(filename)[1] or ".webm"
FileExtension(filename) ==
    IF Splitext1(filename) = <<>> THEN <<".", "webm">> ELSE Splitext1(filename)

\* file_id = str(uuid.uuid4()): the second uuid of the pair drawn with upload
\* id `id`, different from every upload id
FileIdOf(id) == id + MaxSessions

\* os.path.join("uploads", "audio", user_id, f"{file_id}{file_extension}")
FinalPath(user_id, file_id, filename) ==
    <<user_id, file_id, FileExtension(filename)>>

TotalChunksFloor(file_size, chunk_size) == file_size \div chunk_size

\* total_chunks = (file_size + chunk_size - 1) // chunk_size
TotalChunks(file_size, chunk_size) ==
    (file_size + chunk_size - 1) \div chunk_size

\* a write of `data` at offset `off` of a file holding `old` (a hole reads 0)
WriteAt(old, off, data) ==
    LET n == IF Len(old) > off + Len(data) THEN Len(old) ELSE off + Len(data)
    IN [i \in 1 .. n |->
          IF i > off /\ i <= off + Len(data) THEN data[i - off]
          ELSE IF i <= Len(old) THEN old[i] ELSE 0]

\* ------------------------------------------------------------------- state
VARIABLES
    sessions,   \* uploads/sessions: upload_id -> session_data of <upload_id>.json
    chunks,     \* uploads/chunks: upload_id -> (chunk number -> bytes of chunk_NNNN)
    audio,      \* uploads/audio: final path -> bytes of the assembled file
    nextId,     \* number of uuid4() pairs drawn so far
    calls,      \* the requests: call id -> coroutine state and response
    accepted,   \* history: upload_id -> (chunk number -> the bytes first stored for it)
    reordered,  \* history: upload_id -> a chunk was stored before a lower-numbered one
    completions, \* history: upload_id -> number of complete calls that returned 200 (capped at 2)
    declared,   \* history: upload_id -> total_chunks, file_id and filename of the session as it was created
    supabase,   \* database/connection.py: the Supabase client is configured
    meetings,   \* table "meetings": id -> row
    nextMeeting, \* number of meeting ids drawn by uuid.uuid4() in create_meeting
    now,        \* the clock datetime.utcnow() reads; it ticks with every meetings request
    mcalls,     \* meetings requests being served: slot -> handler state
    auth        \* the last call of the JWT handler, with its arguments and outcome

uploadVars == <<sessions, chunks, audio, nextId, calls, accepted, reordered,
                completions, declared>>
meetingVars == <<supabase, meetings, nextMeeting, now, mcalls>>
authVars == <<auth>>

vars == <<uploadVars, meetingVars, authVars>>

NoExc == [type |-> "none", status_code |-> 0, detail |-> "", missing |-> <<>>]

\* HTTPException(status_code=..., detail=...); `missing` is the list printed
\* in the detail of "Missing chunks: [...]"
HTTPException(status_code, detail, missing) ==
    [type |-> "HTTPException", status_code |-> status_code, detail |-> detail,
     missing |-> missing]

\* what open() raises for a missing file or directory, shutil.rmtree for a
\* missing directory and os.remove for a missing file
FileNotFoundError ==
    [type |-> "FileNotFoundError", status_code |-> 0, detail |-> "", missing |-> <<>>]

ZeroDivisionError ==
    [type |-> "ZeroDivisionError", status_code |-> 0, detail |-> "", missing |-> <<>>]

NoResponse ==
    [status_code |-> 0, detail |-> "", upload_id |-> 0, file_id |-> 0,
     filename |-> <<>>, total_chunks |-> 0, chunk_size |-> 0,
     bytes_received |-> 0, file_size |-> 0]

\* the response of an HTTPException that leaves the handler
ErrorResponse(status_code, detail) ==
    [NoResponse EXCEPT !.status_code = status_code, !.detail = detail]

\* except Exception as e: raise HTTPException(500, detail=f"<detail>: {str(e)}")
\* (HTTPException is an Exception, so the handler's own 404/403/400 land here too)
ExceptException(e, detail) ==
    ErrorResponse(HTTP_500_INTERNAL_SERVER_ERROR, detail)

IdleCall ==
    [op |-> "none", pc |-> "idle", upload_id |-> 0, user_id |-> "",
     chunk_number |-> 0, content |-> <<>>, filename |-> <<>>, file_size |-> 0,
     mime_type |-> "", chunk_size |-> 0, session_data |-> <<>>,
     chunk_num |-> 0, total_bytes |-> 0, opened |-> FALSE,
     file_id |-> 0, removed |-> {}, replaced |-> FALSE,
     exc |-> NoExc, resp |-> NoResponse]

\* a meetings request slot that serves nothing
NoMeetingResponse ==
    [status_code |-> 0, detail |-> "", meeting |-> <<>>, meeting_id |-> 0,
     status |-> "", at |-> 0, duration |-> 0]

IdleMeetingCall ==
    [op |-> "none", pc |-> "idle", meeting_id |-> 0, user_id |-> "",
     title |-> "", recording_file_id |-> "", actual_duration |-> 0,
     meeting |-> <<>>, resp |-> NoMeetingResponse]

\* no call of the JWT handler yet
NoAuth ==
    [op |-> "none", token |-> <<>>, token_type |-> "", ok |-> FALSE,
     status_code |-> 0, detail |-> <<>>, user_id |-> "", issued |-> <<>>]

\* no meetings request yet, the Supabase client as the environment configures it
MeetingInit(configured) ==
    /\ supabase \in configured
    /\ meetings = <<>>
    /\ nextMeeting = 0
    /\ now = 0
    /\ mcalls = [c \in CallIds |-> IdleMeetingCall]

AuthInit == auth = NoAuth

UploadInit ==
    /\ sessions = <<>>
    /\ chunks = <<>>
    /\ audio = <<>>
    /\ nextId = 0
    /\ calls = [c \in CallIds |-> IdleCall]
    /\ accepted = [u \in UploadIds |-> <<>>]
    /\ reordered = [u \in UploadIds |-> FALSE]
    /\ completions = [u \in UploadIds |-> 0]
    /\ declared = [u \in UploadIds |->
                     [total_chunks |-> 0, file_id |-> 0, filename |-> <<>>]]

\* supabase: Optional[Client] = None
Init == UploadInit /\ MeetingInit({FALSE}) /\ AuthInit

\* f with key k bound to v (a file created or overwritten)
Put(f, k, v) == [x \in (DOMAIN f) \cup {k} |-> IF x = k THEN v ELSE f[x]]
\* f without key k (a file or directory removed)
Drop(f, k) == [x \in (DOMAIN f) \ {k} |-> f[x]]

InFlight(c) == calls[c].pc \notin {"idle", "done"}
Idle(c) == calls[c].pc = "idle"
\* a request is served by the first free coroutine slot
FreeSlot(c) == Idle(c) /\ \A d \in CallIds : d < c => ~Idle(d)

Goto(c, pc) == calls' = [calls EXCEPT ![c].pc = pc]
Update(c, r) == calls' = [calls EXCEPT ![c] = r]

\* the handler ends with response r
Finish(c, r) == [calls[c] EXCEPT !.pc = "done", !.resp = r]
\* exception e is raised inside the handler's try block
Raise(c, e, detail) ==
    [calls[c] EXCEPT !.pc = "done", !.exc = e, !.resp = ExceptException(e, detail)]

\* ------------------------------------------------------ start_chunked_upload
StartResponse(session_data) ==
    [NoResponse EXCEPT !.status_code = HTTP_200_OK,
                       !.detail = "Chunked upload session started",
                       !.upload_id = session_data.upload_id,
                       !.file_id = session_data.file_id,
                       !.total_chunks = session_data.total_chunks,
                       !.chunk_size = session_data.chunk_size]

NewSessionWithChunk(id, user_id, filename, file_size, mime_type, chunk_size) ==
    [upload_id |-> id, file_id |-> FileIdOf(id), user_id |-> user_id,
     filename |-> filename, file_size |-> file_size, mime_type |-> mime_type,
     chunk_size |-> chunk_size,
     total_chunks |-> TotalChunks(file_size, chunk_size),
     uploaded_chunks |-> <<1>>, created_at |-> id]

\* session_data = {...}, "uploaded_chunks": []
NewSession(id, user_id, filename, file_size, mime_type, chunk_size) ==
    [upload_id |-> id, file_id |-> FileIdOf(id), user_id |-> user_id,
     filename |-> filename, file_size |-> file_size, mime_type |-> mime_type,
     chunk_size |-> chunk_size,
     total_chunks |-> TotalChunks(file_size, chunk_size),
     uploaded_chunks |-> <<>>, created_at |-> id]

\* The handler has no try block and touches only the file of a fresh uuid, so
\* no other request can observe it half done: one action.
StartChunkedUpload(c, user_id, filename, file_size, mime_type, chunk_size) ==
    /\ FreeSlot(c)
    /\ LET call == [IdleCall EXCEPT !.op = "start", !.user_id = user_id,
                        !.filename = filename, !.file_size = file_size,
                        !.mime_type = mime_type, !.chunk_size = chunk_size]
       IN
       IF mime_type \notin ALLOWED_AUDIO_TYPES THEN
           /\ calls' = [calls EXCEPT ![c] =
                  [call EXCEPT !.pc = "done",
                       !.exc = HTTPException(HTTP_400_BAD_REQUEST, "Unsupported file type", <<>>),
                       !.resp = ErrorResponse(HTTP_400_BAD_REQUEST, "Unsupported file type")]]
           /\ UNCHANGED <<sessions, nextId, declared>>
       ELSE IF file_size > MAX_FILE_SIZE THEN
           /\ calls' = [calls EXCEPT ![c] =
                  [call EXCEPT !.pc = "done",
                       !.exc = HTTPException(HTTP_413_REQUEST_ENTITY_TOO_LARGE, "File too large", <<>>),
                       !.resp = ErrorResponse(HTTP_413_REQUEST_ENTITY_TOO_LARGE, "File too large")]]
           /\ UNCHANGED <<sessions, nextId, declared>>
       ELSE IF chunk_size = 0 THEN
           \* uuid4() is drawn before the division; no file is written
           /\ calls' = [calls EXCEPT ![c] =
                  [call EXCEPT !.pc = "done", !.exc = ZeroDivisionError,
                       !.resp = ErrorResponse(HTTP_500_INTERNAL_SERVER_ERROR, "Internal Server Error")]]
           /\ UNCHANGED <<sessions, nextId, declared>>
       ELSE
           /\ nextId < MaxSessions
           /\ nextId' = nextId + 1
           /\ LET session_data == NewSession(nextId + 1, user_id, filename,
                                             file_size, mime_type, chunk_size)
              IN /\ sessions' = Put(sessions, nextId + 1, session_data)
                 /\ declared' = [declared EXCEPT ![nextId + 1] =
                        [total_chunks |-> session_data.total_chunks,
                         file_id |-> session_data.file_id,
                         filename |-> session_data.filename]]
                 /\ calls' = [calls EXCEPT ![c] =
                        [call EXCEPT !.pc = "done", !.upload_id = nextId + 1,
                                     !.resp = StartResponse(session_data)]]
    /\ UNCHANGED <<meetingVars, authVars, chunks, audio, accepted, reordered, completions>>

\* -------------------------------------------------------------- upload_chunk
UploadFailed == "Chunk upload failed"

ChunkResponse(session_data, bytes_received, message) ==
    [NoResponse EXCEPT !.status_code = HTTP_200_OK, !.detail = message,
                       !.upload_id = session_data.upload_id,
                       !.total_chunks = session_data.total_chunks,
                       !.bytes_received = bytes_received]

OnlyBelowOne(chunk_number, total_chunks) == chunk_number < 1

\* chunk_number < 1 or chunk_number > session_data["total_chunks"]
InvalidChunkNumber(chunk_number, total_chunks) ==
    chunk_number < 1 \/ chunk_number > total_chunks

AlwaysFresh(chunk_number, uploaded_chunks) == FALSE

\* chunk_number in session_data["uploaded_chunks"]
AlreadyUploaded(chunk_number, uploaded_chunks) ==
    chunk_number \in Range(uploaded_chunks)

\* the request arrives: route parameters, query, body and authenticated user
BeginUploadChunk(c, upload_id, user_id, chunk_number, content) ==
    /\ FreeSlot(c)
    /\ Update(c, [IdleCall EXCEPT !.op = "upload_chunk", !.pc = "u_exists",
                      !.upload_id = upload_id, !.user_id = user_id,
                      !.chunk_number = chunk_number, !.content = content])
    /\ UNCHANGED <<meetingVars, authVars, sessions, chunks, audio, nextId, accepted, reordered, completions, declared>>

\* if not os.path.exists(session_file): raise 404
UploadExists(c) ==
    /\ calls[c].pc = "u_exists"
    /\ IF calls[c].upload_id \notin DOMAIN sessions
       THEN Update(c, Raise(c, HTTPException(HTTP_404_NOT_FOUND,
                                "Upload session not found", <<>>), UploadFailed))
       ELSE Goto(c, "u_read")
    /\ UNCHANGED <<meetingVars, authVars, sessions, chunks, audio, nextId, accepted, reordered, completions, declared>>

\* session_data = json.loads(await f.read())
UploadRead(c) ==
    /\ calls[c].pc = "u_read"
    /\ IF calls[c].upload_id \notin DOMAIN sessions
       THEN Update(c, Raise(c, FileNotFoundError, UploadFailed))
       ELSE Update(c, [calls[c] EXCEPT !.pc = "u_check",
                           !.session_data = <<sessions[calls[c].upload_id]>>])
    /\ UNCHANGED <<meetingVars, authVars, sessions, chunks, audio, nextId, accepted, reordered, completions, declared>>

\* owner check, chunk number check, duplicate check, os.makedirs(chunks_dir)
UploadCheck(c) ==
    /\ calls[c].pc = "u_check"
    /\ LET session_data == calls[c].session_data[1]
           chunk_number == calls[c].chunk_number
       IN
       IF session_data.user_id # calls[c].user_id THEN
           /\ Update(c, Raise(c, HTTPException(HTTP_403_FORBIDDEN,
                                "Access denied to upload session", <<>>), UploadFailed))
           /\ UNCHANGED chunks
       ELSE IF InvalidChunkNumber(chunk_number, session_data.total_chunks) THEN
           /\ Update(c, Raise(c, HTTPException(HTTP_400_BAD_REQUEST,
                                "Invalid chunk number", <<>>), UploadFailed))
           /\ UNCHANGED chunks
       ELSE IF AlreadyUploaded(chunk_number, session_data.uploaded_chunks) THEN
           /\ Update(c, Finish(c, ChunkResponse(session_data, 0, "Chunk already uploaded")))
           /\ UNCHANGED chunks
       ELSE
           /\ Goto(c, "u_save")
           /\ chunks' = IF calls[c].upload_id \in DOMAIN chunks THEN chunks
                        ELSE Put(chunks, calls[c].upload_id, <<>>)
    /\ UNCHANGED <<meetingVars, authVars, sessions, audio, nextId, accepted, reordered, completions, declared>>

AppendChunkFile(dir, chunk_number, content) ==
    IF chunk_number \in DOMAIN dir
    THEN Put(dir, chunk_number, dir[chunk_number] \o content)
    ELSE Put(dir, chunk_number, content)

\* aiofiles.open(chunk_path, 'wb') and write(content): the chunk file is
\* created, or truncated and rewritten
WriteChunkFile(dir, chunk_number, content) == Put(dir, chunk_number, content)

\* content = await chunk.read(); open(chunk_path, 'wb'); write(content)
UploadSave(c) ==
    /\ calls[c].pc = "u_save"
    /\ LET upload_id == calls[c].upload_id
       IN IF upload_id \notin DOMAIN chunks
          THEN /\ Update(c, Raise(c, FileNotFoundError, UploadFailed))
               /\ UNCHANGED chunks
          ELSE /\ calls' = [calls EXCEPT
                               ![c].pc = "u_commit",
                               ![c].replaced =
                                   calls[c].chunk_number \in DOMAIN chunks[upload_id]]
               /\ chunks' = [chunks EXCEPT ![upload_id] =
                                WriteChunkFile(@, calls[c].chunk_number,
                                               calls[c].content)]
    /\ UNCHANGED <<meetingVars, authVars, sessions, audio, nextId, accepted, reordered, completions, declared>>

CommittedUnnamed(session_data, chunk_number) ==
    [session_data EXCEPT !.uploaded_chunks = AppendAndSort(@, chunk_number),
                         !.filename = <<>>]

\* session_data["uploaded_chunks"].append(chunk_number); .sort()
CommittedSession(session_data, chunk_number) ==
    [session_data EXCEPT !.uploaded_chunks = AppendAndSort(@, chunk_number)]

\* uploaded_chunks.append(chunk_number); .sort(); the session file is
\* rewritten from the copy read at u_read (open(..., 'w') creates it)
UploadCommit(c) ==
    /\ calls[c].pc = "u_commit"
    /\ LET upload_id == calls[c].upload_id
           session_data ==
               CommittedSession(calls[c].session_data[1], calls[c].chunk_number)
       IN /\ sessions' = Put(sessions, upload_id, session_data)
          /\ Update(c, Finish(c, ChunkResponse(session_data, Len(calls[c].content),
                                               "Chunk uploaded successfully")))
          /\ accepted' = [accepted EXCEPT ![upload_id] =
                             IF calls[c].chunk_number \in DOMAIN @ THEN @
                             ELSE Put(@, calls[c].chunk_number, calls[c].content)]
          /\ reordered' = [reordered EXCEPT ![upload_id] =
                              @ \/ \E j \in 1 .. (calls[c].chunk_number - 1) :
                                       j \notin DOMAIN accepted[upload_id]]
    /\ UNCHANGED <<meetingVars, authVars, chunks, audio, nextId, completions, declared>>

\* --------------------------------------------------- complete_chunked_upload
CompleteFailed == "Failed to complete chunked upload"

\* (variant) a response that reports the declared file_size
DeclaredSizeResponse(session_data, total_bytes) ==
    [NoResponse EXCEPT !.status_code = HTTP_200_OK,
                       !.detail = "Chunked upload completed successfully",
                       !.file_id = session_data.file_id,
                       !.filename = session_data.filename,
                       !.file_size = session_data.file_size]

UploadResponse(session_data, total_bytes) ==
    [NoResponse EXCEPT !.status_code = HTTP_200_OK,
                       !.detail = "Chunked upload completed successfully",
                       !.file_id = session_data.file_id,
                       !.filename = session_data.filename,
                       !.file_size = total_bytes]

\* set(expected_chunks) - set(session_data["uploaded_chunks"]), sorted
MissingChunks(session_data) ==
    SortedSeq(Range(RangeList(session_data.total_chunks))
                \ Range(session_data.uploaded_chunks))

WriteFront(old, off, data) == data \o old

\* await final_file.write(chunk_data), the file position being `off`
FinalWrite(old, off, data) == WriteAt(old, off, data)

BeginComplete(c, upload_id, user_id) ==
    /\ FreeSlot(c)
    /\ Update(c, [IdleCall EXCEPT !.op = "complete", !.pc = "c_exists",
                      !.upload_id = upload_id, !.user_id = user_id])
    /\ UNCHANGED <<meetingVars, authVars, sessions, chunks, audio, nextId, accepted, reordered, completions, declared>>

\* if not os.path.exists(session_file): raise 404
CompleteExists(c) ==
    /\ calls[c].pc = "c_exists"
    /\ IF calls[c].upload_id \notin DOMAIN sessions
       THEN Update(c, Raise(c, HTTPException(HTTP_404_NOT_FOUND,
                                "Upload session not found", <<>>), CompleteFailed))
       ELSE Goto(c, "c_read")
    /\ UNCHANGED <<meetingVars, authVars, sessions, chunks, audio, nextId, accepted, reordered, completions, declared>>

\* session_data = json.loads(await f.read())
CompleteRead(c) ==
    /\ calls[c].pc = "c_read"
    /\ IF calls[c].upload_id \notin DOMAIN sessions
       THEN Update(c, Raise(c, FileNotFoundError, CompleteFailed))
       ELSE Update(c, [calls[c] EXCEPT !.pc = "c_check",
                           !.session_data = <<sessions[calls[c].upload_id]>>])
    /\ UNCHANGED <<meetingVars, authVars, sessions, chunks, audio, nextId, accepted, reordered, completions, declared>>

\* owner check; uploaded_chunks != expected_chunks raises 400 with the missing list
CompleteCheck(c) ==
    /\ calls[c].pc = "c_check"
    /\ LET session_data == calls[c].session_data[1]
       IN
       IF session_data.user_id # calls[c].user_id THEN
           Update(c, Raise(c, HTTPException(HTTP_403_FORBIDDEN,
                             "Access denied to upload session", <<>>), CompleteFailed))
       ELSE IF session_data.uploaded_chunks # RangeList(session_data.total_chunks) THEN
           Update(c, Raise(c, HTTPException(HTTP_400_BAD_REQUEST, "Missing chunks",
                             MissingChunks(session_data)), CompleteFailed))
       ELSE Goto(c, "c_open")
    /\ UNCHANGED <<meetingVars, authVars, sessions, chunks, audio, nextId, accepted, reordered, completions, declared>>

\* aiofiles.open(final_path, 'wb'): the file is created, or truncated
CompleteOpen(c) ==
    /\ calls[c].pc = "c_open"
    /\ LET session_data == calls[c].session_data[1]
           final_path == FinalPath(calls[c].user_id, session_data.file_id,
                                   session_data.filename)
       IN audio' = Put(audio, final_path, <<>>)
    /\ Update(c, [calls[c] EXCEPT !.opened = TRUE, !.chunk_num = 1,
                      !.pc = IF calls[c].session_data[1].total_chunks >= 1
                             THEN "c_copy" ELSE "c_rmtree"])
    /\ UNCHANGED <<meetingVars, authVars, sessions, chunks, nextId, accepted, reordered, completions, declared>>

CompleteCopyCleaning(c) ==
    /\ calls[c].pc = "c_copy"
    /\ LET session_data == calls[c].session_data[1]
           upload_id == calls[c].upload_id
           chunk_num == calls[c].chunk_num
           final_path == FinalPath(calls[c].user_id, session_data.file_id,
                                   session_data.filename)
       IN
       IF upload_id \notin DOMAIN chunks \/ chunk_num \notin DOMAIN chunks[upload_id]
       THEN /\ Update(c, Raise(c, FileNotFoundError, CompleteFailed))
            /\ sessions' = Drop(sessions, upload_id)
            /\ UNCHANGED audio
       ELSE LET chunk_data == chunks[upload_id][chunk_num]
            IN /\ audio' = [audio EXCEPT ![final_path] =
                               FinalWrite(@, calls[c].total_bytes, chunk_data)]
               /\ Update(c, [calls[c] EXCEPT
                      !.total_bytes = @ + Len(chunk_data),
                      !.chunk_num = chunk_num + 1,
                      !.pc = IF chunk_num + 1 <= session_data.total_chunks
                             THEN "c_copy" ELSE "c_rmtree"])
               /\ UNCHANGED sessions
    /\ UNCHANGED <<meetingVars, authVars, chunks, nextId, accepted, reordered, completions, declared>>

\* one turn of the loop: read chunk_NNNN, write it to the final file
CompleteCopy(c) ==
    /\ calls[c].pc = "c_copy"
    /\ LET session_data == calls[c].session_data[1]
           upload_id == calls[c].upload_id
           chunk_num == calls[c].chunk_num
           final_path == FinalPath(calls[c].user_id, session_data.file_id,
                                   session_data.filename)
       IN
       IF upload_id \notin DOMAIN chunks \/ chunk_num \notin DOMAIN chunks[upload_id]
       THEN /\ Update(c, Raise(c, FileNotFoundError, CompleteFailed))
            /\ UNCHANGED audio
       ELSE LET chunk_data == chunks[upload_id][chunk_num]
            IN /\ audio' = [audio EXCEPT ![final_path] =
                               FinalWrite(@, calls[c].total_bytes, chunk_data)]
               /\ Update(c, [calls[c] EXCEPT
                      !.total_bytes = @ + Len(chunk_data),
                      !.chunk_num = chunk_num + 1,
                      !.pc = IF chunk_num + 1 <= session_data.total_chunks
                             THEN "c_copy" ELSE "c_rmtree"])
    /\ UNCHANGED <<meetingVars, authVars, sessions, chunks, nextId, accepted, reordered, completions, declared>>

\* (variant) the whole uploads/chunks directory is removed
CompleteRmtreeAll(c) ==
    /\ calls[c].pc = "c_rmtree"
    /\ IF calls[c].upload_id \notin DOMAIN chunks
       THEN /\ Update(c, Raise(c, FileNotFoundError, CompleteFailed))
            /\ UNCHANGED chunks
       ELSE /\ Goto(c, "c_remove")
            /\ chunks' = <<>>
    /\ UNCHANGED <<meetingVars, authVars, sessions, audio, nextId, accepted, reordered, completions, declared>>

\* shutil.rmtree(chunks_dir)
CompleteRmtree(c) ==
    /\ calls[c].pc = "c_rmtree"
    /\ IF calls[c].upload_id \notin DOMAIN chunks
       THEN /\ Update(c, Raise(c, FileNotFoundError, CompleteFailed))
            /\ UNCHANGED chunks
       ELSE /\ Goto(c, "c_remove")
            /\ chunks' = Drop(chunks, calls[c].upload_id)
    /\ UNCHANGED <<meetingVars, authVars, sessions, audio, nextId, accepted, reordered, completions, declared>>

\* os.remove(session_file); return UploadResponse(...)
CompleteRemove(c) ==
    /\ calls[c].pc = "c_remove"
    /\ IF calls[c].upload_id \notin DOMAIN sessions
       THEN /\ Update(c, Raise(c, FileNotFoundError, CompleteFailed))
            /\ UNCHANGED <<sessions, completions>>
       ELSE /\ sessions' = Drop(sessions, calls[c].upload_id)
            /\ Update(c, Finish(c, UploadResponse(calls[c].session_data[1],
                                                  calls[c].total_bytes)))
            /\ completions' = [completions EXCEPT ![calls[c].upload_id] =
                                  IF @ < 2 THEN @ + 1 ELSE @]
    /\ UNCHANGED <<meetingVars, authVars, chunks, audio, nextId, accepted, reordered, declared>>

\* ------------------------------------------------------------- environment
\* the client has read the response; the slot serves the next request
Return(c) ==
    /\ calls[c].pc = "done"
    /\ Update(c, IdleCall)
    /\ UNCHANGED <<meetingVars, authVars, sessions, chunks, audio, nextId, accepted, reordered, completions, declared>>

\* the worker dies (or the request is cancelled) between two steps
Crash(c) ==
    /\ InFlight(c)
    /\ Update(c, IdleCall)
    /\ UNCHANGED <<meetingVars, authVars, sessions, chunks, audio, nextId, accepted, reordered, completions, declared>>

\* a chunk file disappears from the chunk directory although the session file
\* lists it (the inconsistency the chunk read of complete runs into)
LoseBlob(upload_id, chunk_num) ==
    /\ upload_id \in DOMAIN chunks
    /\ chunk_num \in DOMAIN chunks[upload_id]
    /\ chunks' = [chunks EXCEPT ![upload_id] = Drop(@, chunk_num)]
    /\ UNCHANGED <<meetingVars, authVars, sessions, audio, nextId, calls, accepted, reordered, completions,
                   declared>>

\* the operator puts the chunk file back, with the bytes it was stored with
RestoreBlob(upload_id, chunk_num) ==
    /\ upload_id \in DOMAIN chunks
    /\ chunk_num \in DOMAIN accepted[upload_id]
    /\ chunk_num \notin DOMAIN chunks[upload_id]
    /\ chunks' = [chunks EXCEPT ![upload_id] =
                     Put(@, chunk_num, accepted[upload_id][chunk_num])]
    /\ UNCHANGED <<meetingVars, authVars, sessions, audio, nextId, calls, accepted, reordered, completions,
                   declared>>

\* upload_chunk runs to its next await
UploadStep(c) ==
    \/ UploadExists(c) \/ UploadRead(c) \/ UploadCheck(c)
    \/ UploadSave(c) \/ UploadCommit(c)

\* complete_chunked_upload runs to its next await
CompleteStep(c) ==
    \/ CompleteExists(c) \/ CompleteRead(c) \/ CompleteCheck(c)
    \/ CompleteOpen(c) \/ CompleteCopy(c) \/ CompleteRmtree(c)
    \/ CompleteRemove(c)

Step(c) == UploadStep(c) \/ CompleteStep(c)

\* a request of a client: `owners` start sessions of the declared `sizes`,
\* `users` send chunks with the chunk numbers `numbers` to the uploads `ids`
\* and complete them
Begin(c, ids, owners, users, filenames, sizes, mimes, chunk_sizes, numbers) ==
    \/ \E user_id \in owners, filename \in filenames, file_size \in sizes,
          mime_type \in mimes, chunk_size \in chunk_sizes :
          StartChunkedUpload(c, user_id, filename, file_size, mime_type, chunk_size)
    \/ \E upload_id \in ids, user_id \in users,
          chunk_number \in numbers, content \in Contents :
          BeginUploadChunk(c, upload_id, user_id, chunk_number, content)
    \/ \E upload_id \in ids, user_id \in users :
          BeginComplete(c, upload_id, user_id)

AllIdle == \A c \in CallIds : Idle(c)

\* requests served one at a time, each to its end and its response read;
\* the server creates at most MaxUploads sessions
SeqNext ==
    \E c \in CallIds :
        \/ /\ AllIdle
           /\ Begin(c, 1 .. MaxUploads, {"u1"}, Users, {NameWithExt}, FileSizes,
                    MimeTypes, ChunkSizes, ChunkNumbers)
           /\ nextId' <= MaxUploads
        \/ Step(c)
        \/ Return(c)

SeqSpec == Init /\ [][SeqNext]_vars

\* the owner's requests served concurrently, interleaved at their awaits
Next ==
    \E c \in CallIds :
        \/ /\ Begin(c, 1 .. MaxUploads, {"u1"}, {"u1"}, {NameWithoutExt},
                    1 .. MaxChunks, {"audio/wav"}, {1}, 1 .. MaxChunks)
           /\ nextId' <= MaxUploads
        \/ Step(c)
        \/ Return(c)

Spec == Init /\ [][Next]_vars

\* the upload followed through the death of its requests
CrashedUploads == {1}

\* the requests of one upload served one at a time, any of which may die
\* between two steps
CrashNext ==
    \E c \in CallIds :
        \/ /\ AllIdle
           /\ Begin(c, CrashedUploads, {"u1"}, {"u1"}, {NameWithExt},
                    1 .. MaxChunks, {"audio/wav"}, {1}, 1 .. MaxChunks)
           /\ nextId' <= Cardinality(CrashedUploads)
        \/ Step(c)
        \/ Return(c)
        \/ Crash(c)

CrashSpec == Init /\ [][CrashNext]_vars

\* the uploads followed through a faulty chunk directory
FaultyUploads == {1}

\* the owner's requests served one at a time, over a chunk directory that can
\* lose a chunk file, and get it back, between two requests
FaultNext ==
    \/ \E c \in CallIds :
          \/ /\ AllIdle
             /\ Begin(c, FaultyUploads, {"u1"}, {"u1"}, {NameWithExt},
                      1 .. MaxChunks, {"audio/wav"}, {1}, 1 .. MaxChunks)
             /\ nextId' <= Cardinality(FaultyUploads)
          \/ Step(c)
          \/ Return(c)
    \/ \E upload_id \in FaultyUploads, chunk_num \in 1 .. MaxChunks :
          /\ AllIdle
          /\ \/ LoseBlob(upload_id, chunk_num)
             \/ RestoreBlob(upload_id, chunk_num)

FaultSpec == Init /\ [][FaultNext]_vars

\* one-chunk uploads of two users, under either filename, as many sessions as
\* the server draws ids, requests served one at a time
SessionsNext ==
    \E c \in CallIds :
        \/ /\ AllIdle
           /\ Begin(c, UploadIds, Users, Users, {NameWithExt, NameWithoutExt},
                    {1}, {"audio/wav"}, {1}, {1})
        \/ Step(c)
        \/ Return(c)

SessionsSpec == Init /\ [][SessionsNext]_vars

\* the two coroutines of two upload_chunk calls that run at the same time
Pair == {1, 2}

\* upload_chunk calls for chunk 1 of the same upload, two at a time,
\* interleaved at their awaits
SameChunkNext ==
    \E c \in Pair :
        \/ /\ \/ \E file_size \in 1 .. MaxChunks :
                    StartChunkedUpload(c, "u1", NameWithExt, file_size,
                                       "audio/wav", 1)
              \/ \E upload_id \in 1 .. MaxUploads, content \in Contents :
                    BeginUploadChunk(c, upload_id, "u1", 1, content)
           /\ nextId' <= MaxUploads
        \/ UploadStep(c)
        \/ Return(c)

SameChunkSpec == Init /\ [][SameChunkNext]_vars

\* upload_chunk calls of the owner for every chunk number of one upload, two
\* at a time, interleaved at their awaits
ChunksNext ==
    \E c \in Pair :
        \/ /\ \/ StartChunkedUpload(c, "u1", NameWithExt, MaxChunks,
                                     "audio/wav", 1)
              \/ \E upload_id \in FaultyUploads, chunk_number \in 1 .. MaxChunks :
                    BeginUploadChunk(c, upload_id, "u1", chunk_number, <<1>>)
           /\ nextId' <= Cardinality(FaultyUploads)
        \/ UploadStep(c)
        \/ Return(c)

ChunksSpec == Init /\ [][ChunksNext]_vars

\* the uploads of two sessions that exist side by side
TwoUploads == {1, 2}

\* two one-chunk uploads of the owner, two requests at a time, interleaved
\* at their awaits
IsolationNext ==
    \E c \in Pair :
        \/ /\ \/ StartChunkedUpload(c, "u1", NameWithExt, 1, "audio/wav", 1)
              \/ \E upload_id \in TwoUploads :
                    BeginUploadChunk(c, upload_id, "u1", 1, <<1>>)
              \/ \E upload_id \in TwoUploads :
                    BeginComplete(c, upload_id, "u1")
           /\ nextId' <= Cardinality(TwoUploads)
        \/ Step(c)
        \/ Return(c)

IsolationSpec == Init /\ [][IsolationNext]_vars

\* the owner's requests served concurrently, complete calls one at a time: a
\* complete call is taken up when no other complete call holds a coroutine
RaceNext ==
    \E c \in CallIds :
        \/ /\ Begin(c, 1 .. MaxUploads, {"u1"}, {"u1"}, {NameWithoutExt},
                    1 .. MaxChunks, {"audio/wav"}, {1}, 1 .. MaxChunks)
           /\ nextId' <= MaxUploads
           /\ calls'[c].op = "complete"
                 => \A d \in CallIds \ {c} : calls[d].op # "complete"
        \/ Step(c)
        \/ Return(c)

RaceSpec == Init /\ [][RaceNext]_vars

\* declared sizes and chunk sizes of start requests, the documented examples
\* (12,000,000 and 50,000,000 bytes in chunks of 5,000,000) among them
StartSizes == (-1 .. MaxStartSize) \cup {12000000, 50000000, MAX_FILE_SIZE, MAX_FILE_SIZE + 1}
StartChunkSizes == (-1 .. MaxStartChunk) \cup {5000000, CHUNK_SIZE}

\* start requests alone, one at a time, over the wide input sets
StartNext ==
    \E c \in CallIds :
        \/ \E file_size \in StartSizes, chunk_size \in StartChunkSizes :
              /\ AllIdle
              /\ StartChunkedUpload(c, "u1", NameWithExt, file_size,
                                    "audio/wav", chunk_size)
              /\ nextId' <= MaxUploads
        \/ Return(c)

StartSpec == Init /\ [][StartNext]_vars

\* ------------------------------------------------------------------ claims
Done(c, op) == calls[c].op = op /\ calls[c].pc = "done"

\* the bytes of the first stored upload of chunk k of upload u
FirstBytes(u, k) == accepted[u][k]

RECURSIVE ConcatChunks(_, _)
\* chunk 1's bytes, then chunk 2's bytes, ... then chunk n's bytes
ConcatChunks(u, n) ==
    IF n <= 0 THEN <<>> ELSE ConcatChunks(u, n - 1) \o FirstBytes(u, n)

\* n is ceil(a / b), for b > 0
IsCeil(n, a, b) == n * b >= a /\ (n - 1) * b < a

\* C1: for a session with total_chunks >= 1, a complete call of the owner
\* returns 200 iff the received chunk numbers are exactly 1..total_chunks, and
\* on a strict subset it fails as a 400 "Missing chunks" whose list is the
\* ascending complement of the received set.
C1_CompleteIffAllChunks ==
    \A c \in CallIds :
        (/\ Done(c, "complete")
         /\ calls[c].session_data # <<>>
         /\ calls[c].session_data[1].total_chunks >= 1
         /\ calls[c].session_data[1].user_id = calls[c].user_id)
        => LET sd == calls[c].session_data[1]
               recv == Range(sd.uploaded_chunks)
               all == 1 .. sd.total_chunks
           IN /\ calls[c].resp.status_code = HTTP_200_OK <=> recv = all
              /\ (recv \subseteq all /\ recv # all)
                     => /\ calls[c].resp.status_code = HTTP_400_BAD_REQUEST
                        /\ calls[c].resp.detail = "Missing chunks"
                        /\ calls[c].exc.missing = SortedSeq(all \ recv)

\* C1, as far as the code goes: the same with the 400 taken from the exception
\* raised inside the try block instead of from the response
C1_RaisedInside ==
    \A c \in CallIds :
        (/\ Done(c, "complete")
         /\ calls[c].session_data # <<>>
         /\ calls[c].session_data[1].total_chunks >= 1
         /\ calls[c].session_data[1].user_id = calls[c].user_id)
        => LET sd == calls[c].session_data[1]
               recv == Range(sd.uploaded_chunks)
               all == 1 .. sd.total_chunks
           IN /\ calls[c].resp.status_code = HTTP_200_OK <=> recv = all
              /\ (recv \subseteq all /\ recv # all)
                     => /\ calls[c].exc.status_code = HTTP_400_BAD_REQUEST
                        /\ calls[c].exc.detail = "Missing chunks"
                        /\ calls[c].exc.missing = SortedSeq(all \ recv)

\* C2: whatever the order in which the chunks arrived, the file a successful
\* complete call leaves at the final path is chunk 1's bytes, then chunk 2's,
\* ... then chunk total_chunks', nothing reordered, missing or repeated.
C2_ArtifactIsOrderedConcat ==
    \A c \in CallIds :
        (Done(c, "complete") /\ calls[c].resp.status_code = HTTP_200_OK)
        => LET sd == calls[c].session_data[1]
               final_path == FinalPath(sd.user_id, sd.file_id, sd.filename)
           IN /\ final_path \in DOMAIN audio
              /\ audio[final_path] = ConcatChunks(calls[c].upload_id, sd.total_chunks)

\* C2 witness: chunk 2 arrived before chunk 1, with other bytes, and the
\* completed file starts with chunk 1's bytes
C2_Witness ==
    \E c \in CallIds :
        /\ Done(c, "complete") /\ calls[c].resp.status_code = HTTP_200_OK
        /\ reordered[calls[c].upload_id]
        /\ accepted[calls[c].upload_id] = <<<<2, 3>>, <<1>>>>
        /\ \E p \in DOMAIN audio : audio[p] = <<2, 3, 1>>

NoDuplicates(lst) == \A i, j \in DOMAIN lst : lst[i] = lst[j] => i = j

\* C3: an upload of a chunk number that is already in the received set
\* returns 200 with bytes_received = 0 and changes nothing: the blob keeps the
\* bytes first stored, the session record is the one that was read, and no
\* received list holds a number twice.
C3_DuplicateIsNoOp ==
    /\ \A u \in DOMAIN sessions : NoDuplicates(sessions[u].uploaded_chunks)
    /\ \A c \in CallIds :
        (/\ Done(c, "upload_chunk")
         /\ calls[c].session_data # <<>>
         /\ calls[c].session_data[1].user_id = calls[c].user_id
         /\ calls[c].chunk_number \in Range(calls[c].session_data[1].uploaded_chunks))
        => LET u == calls[c].upload_id
               k == calls[c].chunk_number
           IN /\ calls[c].resp.status_code = HTTP_200_OK
              /\ calls[c].resp.bytes_received = 0
              /\ calls[c].resp.detail = "Chunk already uploaded"
              /\ u \in DOMAIN sessions /\ sessions[u] = calls[c].session_data[1]
              /\ u \in DOMAIN chunks /\ k \in DOMAIN chunks[u]
              /\ chunks[u][k] = FirstBytes(u, k)
              /\ DOMAIN accepted[u] = Range(sessions[u].uploaded_chunks)

\* C3 witness: a retry of a stored chunk, carrying other bytes than the first
\* upload, has returned, and another chunk of the session is still missing
C3_Witness ==
    \E c \in CallIds :
        /\ Done(c, "upload_chunk")
        /\ calls[c].session_data # <<>>
        /\ calls[c].chunk_number \in Range(calls[c].session_data[1].uploaded_chunks)
        /\ calls[c].resp.bytes_received = 0
        /\ calls[c].content # chunks[calls[c].upload_id][calls[c].chunk_number]
        /\ Len(calls[c].session_data[1].uploaded_chunks)
               < calls[c].session_data[1].total_chunks

\* C4: a start request with file_size >= 0 and chunk_size > 0 that is accepted
\* returns and stores total_chunks = ceil(file_size / chunk_size), and such a
\* request is accepted when the type is allowed and the size within the limit.
C4_TotalChunksIsCeil ==
    \A c \in CallIds :
        (Done(c, "start") /\ calls[c].file_size >= 0 /\ calls[c].chunk_size > 0)
        => /\ (calls[c].mime_type \in ALLOWED_AUDIO_TYPES
                  /\ calls[c].file_size <= MAX_FILE_SIZE)
               => calls[c].resp.status_code = HTTP_200_OK
           /\ calls[c].resp.status_code = HTTP_200_OK
               => /\ IsCeil(calls[c].resp.total_chunks, calls[c].file_size,
                            calls[c].chunk_size)
                  /\ calls[c].resp.upload_id \in DOMAIN sessions
                  /\ sessions[calls[c].resp.upload_id].total_chunks
                         = calls[c].resp.total_chunks

\* C4 witness: 12,000,000 bytes in chunks of 5,000,000 were started as 3 chunks
C4_Witness ==
    \E c \in CallIds :
        /\ Done(c, "start")
        /\ calls[c].file_size = 12000000 /\ calls[c].chunk_size = 5000000
        /\ calls[c].resp.total_chunks = 3
        /\ sessions[calls[c].resp.upload_id].total_chunks = 3

\* C5: once a complete call has returned 200 for an upload, its session file
\* and its chunk directory are gone, and every later upload_chunk or complete
\* call on that upload_id is answered 404 "Upload session not found".
C5_GoneAfterComplete ==
    \A u \in UploadIds :
        completions[u] >= 1
        => /\ u \notin DOMAIN sessions
           /\ u \notin DOMAIN chunks
           /\ \A c \in CallIds :
                (/\ calls[c].upload_id = u /\ calls[c].pc = "done"
                 /\ calls[c].op \in {"upload_chunk", "complete"}
                 /\ calls[c].resp.status_code # HTTP_200_OK)
                => /\ calls[c].resp.status_code = HTTP_404_NOT_FOUND
                   /\ calls[c].resp.detail = "Upload session not found"

\* C5, as far as the code goes: the later calls raise the 404 inside their try
\* block, and no later call changes a session, a chunk or a final file
C5_RaisedInside ==
    \A u \in UploadIds :
        completions[u] >= 1
        => /\ u \notin DOMAIN sessions
           /\ u \notin DOMAIN chunks
           /\ \A c \in CallIds :
                (/\ calls[c].upload_id = u /\ calls[c].pc = "done"
                 /\ calls[c].op \in {"upload_chunk", "complete"}
                 /\ calls[c].resp.status_code # HTTP_200_OK)
                => /\ calls[c].exc.status_code = HTTP_404_NOT_FOUND
                   /\ calls[c].exc.detail = "Upload session not found"

\* C5, the frame: once an upload is completed, no step re-creates its session
\* file or chunk directory, or creates or changes a final file of it
C5_NoLaterChange ==
    [][\A u \in UploadIds :
         completions[u] >= 1
         => /\ u \notin DOMAIN sessions' /\ u \notin DOMAIN chunks'
            /\ \A p \in DOMAIN audio' :
                 p[2] = FileIdOf(u) => p \in DOMAIN audio /\ audio'[p] = audio[p]]_vars

\* C6: a failure raised inside upload_chunk or complete_chunked_upload reaches
\* the caller with its own status: the 404 of an unknown upload_id as 404
\* "Upload session not found", the 400 of missing chunks as 400 "Missing
\* chunks", never as a 500.
C6_FailuresKeepTheirKind ==
    \A c \in CallIds :
        (calls[c].pc = "done" /\ calls[c].op \in {"upload_chunk", "complete"}
           /\ calls[c].exc.type = "HTTPException"
           /\ calls[c].exc.status_code \in {HTTP_404_NOT_FOUND, HTTP_400_BAD_REQUEST})
        => /\ calls[c].resp.status_code = calls[c].exc.status_code
           /\ calls[c].resp.detail = calls[c].exc.detail

\* C7: when two upload_chunk calls for different chunk numbers of one upload
\* have both returned 200 for a chunk they stored, both numbers are in the
\* received list of the session file.
C7_NoLostUpdate ==
    \A c, d \in CallIds :
        (/\ c # d
         /\ Done(c, "upload_chunk") /\ Done(d, "upload_chunk")
         /\ calls[c].resp.status_code = HTTP_200_OK
         /\ calls[d].resp.status_code = HTTP_200_OK
         /\ calls[c].upload_id = calls[d].upload_id
         /\ calls[c].chunk_number # calls[d].chunk_number
         /\ calls[c].upload_id \in DOMAIN sessions)
        => {calls[c].chunk_number, calls[d].chunk_number}
               \subseteq Range(sessions[calls[c].upload_id].uploaded_chunks)

\* C8: in every state, every chunk number in the received list of an existing
\* session has its chunk file in the chunk directory.
C8_ReceivedImpliesStored ==
    \A u \in DOMAIN sessions :
        \A k \in Range(sessions[u].uploaded_chunks) :
            u \in DOMAIN chunks /\ k \in DOMAIN chunks[u]

\* C8 outside the two cleanup statements of complete: the same, in the states
\* where no complete call stands between shutil.rmtree and os.remove
C8_OutsideCleanup ==
    (\A c \in CallIds : calls[c].pc # "c_remove") => C8_ReceivedImpliesStored

\* C9: once a complete call has returned 200 for an upload, no session file of
\* that upload exists in any later state.
C9_CompleteIsTerminal ==
    \A u \in UploadIds : completions[u] >= 1 => u \notin DOMAIN sessions

\* C10: at most one complete call returns 200 per upload, and a complete call
\* that does not return 200 has not created or truncated the final file.
C10_ArtifactCreatedOnce ==
    /\ \A u \in UploadIds : completions[u] <= 1
    /\ \A c \in CallIds :
          (Done(c, "complete") /\ calls[c].resp.status_code # HTTP_200_OK)
          => ~calls[c].opened

\* the upload whose start request drew file id f
UploadOfFile(f) == CHOOSE u \in UploadIds : FileIdOf(u) = f

\* the final path of the complete call c
FinalPathOf(c) ==
    FinalPath(calls[c].user_id, calls[c].session_data[1].file_id,
              calls[c].session_data[1].filename)

\* the complete call c failed reading a chunk file inside the loop
FailedInCopy(c) ==
    /\ Done(c, "complete") /\ calls[c].opened
    /\ calls[c].exc.type = "FileNotFoundError"
    /\ calls[c].chunk_num <= calls[c].session_data[1].total_chunks

\* C11, first half: in every state, every file under uploads/audio holds
\* chunk 1's bytes, ... chunk total_chunks' bytes of its upload, all of them
C11_EveryArtifactComplete ==
    \A p \in DOMAIN audio :
        audio[p] = ConcatChunks(UploadOfFile(p[2]),
                                declared[UploadOfFile(p[2])].total_chunks)

\* C11, second half: a complete call that did not return 200, on an upload no
\* complete call has returned 200 for, leaves no file at the final path
C11_FailedLeavesNothing ==
    \A c \in CallIds :
        (/\ Done(c, "complete") /\ calls[c].session_data # <<>>
         /\ calls[c].resp.status_code # HTTP_200_OK
         /\ completions[calls[c].upload_id] = 0)
        => FinalPathOf(c) \notin DOMAIN audio

\* C11: assembly is atomic: in every state a file at a final path holds the
\* complete ordered concatenation of the chunks 1..total_chunks, and a
\* complete call that fails (missing chunks, or a chunk read failing part-way)
\* leaves no empty or partial file at that path.
C11_AssemblyIsAtomic ==
    C11_EveryArtifactComplete /\ C11_FailedLeavesNothing

\* C12: when a chunk read fails inside the loop of complete, the call fails
\* with the 500 "Failed to complete chunked upload", no step of the call up to
\* there has changed the session file or a chunk file, and the session file
\* still holds what the call read; so a complete call on a session whose
\* chunks are all listed fails only while a chunk file is missing, and
\* succeeds once it is back.
C12_FailedAssemblyKeepsSession ==
    /\ [](\A c \in CallIds :
            FailedInCopy(c)
            => /\ calls[c].resp.status_code = HTTP_500_INTERNAL_SERVER_ERROR
               /\ calls[c].resp.detail = CompleteFailed
               /\ calls[c].upload_id \in DOMAIN sessions
               /\ sessions[calls[c].upload_id] = calls[c].session_data[1])
    /\ [](\A c \in CallIds :
            (/\ Done(c, "complete") /\ calls[c].session_data # <<>>
             /\ calls[c].session_data[1].user_id = calls[c].user_id
             /\ calls[c].session_data[1].uploaded_chunks
                    = RangeList(calls[c].session_data[1].total_chunks)
             /\ calls[c].resp.status_code # HTTP_200_OK)
            => \E k \in 1 .. calls[c].session_data[1].total_chunks :
                   \/ calls[c].upload_id \notin DOMAIN chunks
                   \/ k \notin DOMAIN chunks[calls[c].upload_id])
    /\ [][\A c \in CallIds :
            (/\ calls[c].op = "complete"
             /\ calls[c].pc \in {"c_exists", "c_read", "c_check", "c_open", "c_copy"}
             /\ calls'[c] # calls[c])
            => UNCHANGED <<sessions, chunks>>]_vars

\* C12 witness: chunk 1 was copied, the read of chunk 2 failed, and the
\* session file still lists both chunks, chunk 1's file still in place
C12_Witness ==
    \E c \in CallIds :
        /\ FailedInCopy(c) /\ calls[c].chunk_num = 2
        /\ calls[c].upload_id \in DOMAIN sessions
        /\ sessions[calls[c].upload_id].uploaded_chunks = <<1, 2>>
        /\ DOMAIN chunks[calls[c].upload_id] = {1}

\* C13: a complete call that has written every chunk to the final file
\* returns 200, also when shutil.rmtree or os.remove then fails.
C13_CleanupFailureNotSurfaced ==
    \A c \in CallIds :
        (/\ Done(c, "complete") /\ calls[c].opened
         /\ calls[c].chunk_num > calls[c].session_data[1].total_chunks)
        => calls[c].resp.status_code = HTTP_200_OK

\* the upload_chunk or complete call c has ended, and the session it read
\* belongs to another user
RefusedNotOwner(c) ==
    /\ calls[c].pc = "done" /\ calls[c].op \in {"upload_chunk", "complete"}
    /\ calls[c].session_data # <<>>
    /\ calls[c].session_data[1].user_id # calls[c].user_id

\* C14: an upload_chunk or complete call of a user who is not the session's
\* owner is answered 403 "Access denied to upload session" and leaves the
\* session file as it was read, whatever the chunk number.
C14_ForbiddenChangesNothing ==
    \A c \in CallIds :
        RefusedNotOwner(c)
        => /\ calls[c].resp.status_code = HTTP_403_FORBIDDEN
           /\ calls[c].resp.detail = "Access denied to upload session"
           /\ calls[c].upload_id \in DOMAIN sessions
           /\ sessions[calls[c].upload_id] = calls[c].session_data[1]

\* C14, as far as the code goes: the 403 is raised inside the try block and
\* the session file is as it was read
C14_RaisedInside ==
    \A c \in CallIds :
        RefusedNotOwner(c)
        => /\ calls[c].exc.status_code = HTTP_403_FORBIDDEN
           /\ calls[c].exc.detail = "Access denied to upload session"
           /\ calls[c].resp.status_code # HTTP_200_OK
           /\ calls[c].upload_id \in DOMAIN sessions
           /\ sessions[calls[c].upload_id] = calls[c].session_data[1]

\* C14, the frame: no step of a call of a user who is not the owner of the
\* session changes a session file, a chunk file or a final file
C14_NoChange ==
    [][\A c \in CallIds :
         (/\ calls[c].op \in {"upload_chunk", "complete"}
          /\ calls[c].upload_id \in DOMAIN sessions
          /\ sessions[calls[c].upload_id].user_id # calls[c].user_id
          /\ calls'[c] # calls[c])
         => UNCHANGED <<sessions, chunks, audio>>]_vars

\* the upload_chunk call c of the owner has ended, and its chunk number is
\* outside 1..total_chunks of the session it read
RefusedOutOfRange(c) ==
    /\ Done(c, "upload_chunk")
    /\ calls[c].session_data # <<>>
    /\ calls[c].session_data[1].user_id = calls[c].user_id
    /\ \/ calls[c].chunk_number < 1
       \/ calls[c].chunk_number > calls[c].session_data[1].total_chunks

\* C15: an upload_chunk call with chunk_number < 1 or > total_chunks is
\* answered 400 "Invalid chunk number", stores no chunk file under that
\* number and leaves the session file as it was read.
C15_OutOfRangeRejected ==
    \A c \in CallIds :
        RefusedOutOfRange(c)
        => /\ calls[c].resp.status_code = HTTP_400_BAD_REQUEST
           /\ calls[c].resp.detail = "Invalid chunk number"
           /\ calls[c].upload_id \in DOMAIN sessions
           /\ sessions[calls[c].upload_id] = calls[c].session_data[1]
           /\ calls[c].upload_id \in DOMAIN chunks
                  => calls[c].chunk_number \notin DOMAIN chunks[calls[c].upload_id]

\* C15, as far as the code goes: the 400 is raised inside the try block, no
\* chunk file of that number exists and the session file is as it was read
C15_RaisedInside ==
    \A c \in CallIds :
        RefusedOutOfRange(c)
        => /\ calls[c].exc.status_code = HTTP_400_BAD_REQUEST
           /\ calls[c].exc.detail = "Invalid chunk number"
           /\ calls[c].resp.status_code # HTTP_200_OK
           /\ calls[c].upload_id \in DOMAIN sessions
           /\ sessions[calls[c].upload_id] = calls[c].session_data[1]
           /\ calls[c].upload_id \in DOMAIN chunks
                  => calls[c].chunk_number \notin DOMAIN chunks[calls[c].upload_id]

\* C15, the frame: no step of an upload_chunk call whose chunk number is
\* outside 1..total_chunks changes a session file, a chunk file or a final file
C15_NoChange ==
    [][\A c \in CallIds :
         (/\ calls[c].op = "upload_chunk"
          /\ calls[c].upload_id \in DOMAIN sessions
          /\ \/ calls[c].chunk_number < 1
             \/ calls[c].chunk_number
                    > sessions[calls[c].upload_id].total_chunks
          /\ calls'[c] # calls[c])
         => UNCHANGED <<sessions, chunks, audio>>]_vars

\* C16: in every state, the received chunk numbers of every existing session
\* are among 1..total_chunks of that session.
C16_ReceivedWithinRange ==
    \A u \in DOMAIN sessions :
        Range(sessions[u].uploaded_chunks) \subseteq 1 .. sessions[u].total_chunks

\* C16 witness: every chunk of a session is received, and an upload of chunk
\* number total_chunks + 1 has been refused
C16_Witness ==
    \E c \in CallIds :
        /\ RefusedOutOfRange(c)
        /\ calls[c].session_data[1].total_chunks >= 1
        /\ calls[c].chunk_number = calls[c].session_data[1].total_chunks + 1
        /\ sessions[calls[c].upload_id].uploaded_chunks
               = RangeList(sessions[calls[c].upload_id].total_chunks)

\* C17: while a session file exists, no step takes a chunk number out of its
\* received list: the list after the step holds every number it held before.
C17_ReceivedOnlyGrows ==
    [][\A u \in (DOMAIN sessions) \cap (DOMAIN sessions') :
         Range(sessions[u].uploaded_chunks)
             \subseteq Range(sessions'[u].uploaded_chunks)]_vars

\* C18: a start request with chunk_size <= 0 is answered 400 and stores no
\* session, and no stored session has a chunk_size <= 0 or a negative
\* total_chunks.
C18_NonPositiveChunkSizeRejected ==
    /\ \A c \in CallIds :
          (Done(c, "start") /\ calls[c].chunk_size <= 0)
          => /\ calls[c].resp.status_code = HTTP_400_BAD_REQUEST
             /\ calls[c].upload_id = 0
    /\ \A u \in DOMAIN sessions :
          sessions[u].chunk_size > 0 /\ sessions[u].total_chunks >= 0

\* a start request has just been answered in this step
StartAnswered(c) ==
    calls[c].pc = "idle" /\ calls'[c].op = "start" /\ calls'[c].pc = "done"

\* C19: a start request declaring the type application/pdf is answered 400
\* "Unsupported file type"; one declaring an allowed type and a file_size
\* above MAX_FILE_SIZE is answered 413 "File too large"; and a start request
\* with either fault draws no upload id and writes no session file.
C19_StartRejectsTypeAndSize ==
    /\ [](\A c \in CallIds :
            (Done(c, "start") /\ calls[c].mime_type = "application/pdf")
            => /\ calls[c].resp.status_code = HTTP_400_BAD_REQUEST
               /\ calls[c].resp.detail = "Unsupported file type"
               /\ calls[c].upload_id = 0)
    /\ [](\A c \in CallIds :
            (/\ Done(c, "start") /\ calls[c].mime_type = "audio/wav"
             /\ calls[c].file_size > 100 * 1024 * 1024)
            => /\ calls[c].resp.status_code = HTTP_413_REQUEST_ENTITY_TOO_LARGE
               /\ calls[c].resp.detail = "File too large"
               /\ calls[c].upload_id = 0)
    /\ [][\A c \in CallIds :
            (/\ StartAnswered(c)
             /\ \/ calls'[c].mime_type = "application/pdf"
                \/ calls'[c].file_size > 100 * 1024 * 1024)
            => UNCHANGED <<sessions, chunks, audio, nextId>>]_vars

\* C19 witness: with a session on disk, a start request for an audio file one
\* byte above the limit was answered 413
C19_Witness ==
    \E c \in CallIds :
        /\ Done(c, "start") /\ calls[c].mime_type = "audio/wav"
        /\ calls[c].file_size = 100 * 1024 * 1024 + 1
        /\ calls[c].resp.status_code = HTTP_413_REQUEST_ENTITY_TOO_LARGE
        /\ DOMAIN sessions # {}

\* C20: a start request answered 200 writes one session file, under an
\* upload id that had none, with an empty received list and the caller as
\* owner, and changes no other session file, no chunk file and no final file.
C20_StartWritesOneSession ==
    [][\A c \in CallIds :
         (StartAnswered(c) /\ calls'[c].resp.status_code = HTTP_200_OK)
         => LET id == calls'[c].resp.upload_id
            IN /\ id \notin DOMAIN sessions
               /\ DOMAIN sessions' = (DOMAIN sessions) \cup {id}
               /\ sessions'[id].uploaded_chunks = <<>>
               /\ sessions'[id].user_id = calls'[c].user_id
               /\ \A u \in DOMAIN sessions : sessions'[u] = sessions[u]
               /\ UNCHANGED <<chunks, audio>>]_vars

\* C20 witness: u2 has started a session while a session of u1 holds a
\* received chunk and its chunk file
C20_Witness ==
    \E c \in CallIds :
        /\ Done(c, "start") /\ calls[c].resp.status_code = HTTP_200_OK
        /\ calls[c].user_id = "u2"
        /\ sessions[calls[c].resp.upload_id].uploaded_chunks = <<>>
        /\ \E u \in DOMAIN sessions :
               /\ u # calls[c].resp.upload_id
               /\ sessions[u].user_id = "u1"
               /\ sessions[u].uploaded_chunks = <<1>>
               /\ u \in DOMAIN chunks /\ 1 \in DOMAIN chunks[u]

\* the number of times k stands in the list lst
Occurrences(lst, k) == Cardinality({i \in DOMAIN lst : lst[i] = k})

\* the upload_chunk calls c and d, for the same chunk of the same upload,
\* have both ended after reading the session
SameChunkDone(c, d) ==
    /\ c # d /\ Done(c, "upload_chunk") /\ Done(d, "upload_chunk")
    /\ calls[c].upload_id = calls[d].upload_id
    /\ calls[c].chunk_number = calls[d].chunk_number
    /\ calls[c].session_data # <<>> /\ calls[d].session_data # <<>>

C22_CheckedImpliesStored ==
    \A c \in CallIds :
        (calls[c].op = "complete" /\ calls[c].pc \in {"c_open", "c_copy"})
        => \A k \in 1 .. calls[c].session_data[1].total_chunks :
               /\ calls[c].upload_id \in DOMAIN chunks
               /\ k \in DOMAIN chunks[calls[c].upload_id]

\* the sum of the lengths of the chunk files 1..n stored for upload u
RECURSIVE StoredLength(_, _)
StoredLength(u, n) ==
    IF n <= 0 THEN 0 ELSE StoredLength(u, n - 1) + Len(FirstBytes(u, n))

\* C23: a complete call answered 200 returns the file_id the start request
\* of that session returned, the filename declared there, and as size the sum
\* of the lengths of the stored chunks 1..total_chunks, whatever the declared
\* file_size.
C23_CompleteReturnsStartData ==
    \A c \in CallIds :
        (Done(c, "complete") /\ calls[c].resp.status_code = HTTP_200_OK)
        => LET u == calls[c].upload_id
           IN /\ calls[c].resp.file_id = declared[u].file_id
              /\ calls[c].resp.file_id # u
              /\ calls[c].resp.filename = declared[u].filename
              /\ calls[c].resp.file_size
                     = StoredLength(u, declared[u].total_chunks)

\* C23 witness: the second session, declared as 1 byte under the name
\* without extension, was completed with a chunk of 2 bytes
C23_Witness ==
    \E c \in CallIds :
        /\ Done(c, "complete") /\ calls[c].resp.status_code = HTTP_200_OK
        /\ calls[c].upload_id = 2
        /\ calls[c].session_data[1].file_size = 1
        /\ calls[c].resp.filename = NameWithoutExt
        /\ calls[c].resp.file_size = 2

\* C29: for a session of declared size 0 (total_chunks = 0), a complete call
\* of the owner is answered 200 with size 0, leaves an empty final file and
\* removes the session file.
C29_EmptyUploadCompletes ==
    \A c \in CallIds :
        (/\ Done(c, "complete") /\ calls[c].session_data # <<>>
         /\ calls[c].session_data[1].user_id = calls[c].user_id
         /\ calls[c].session_data[1].file_size = 0
         /\ calls[c].session_data[1].total_chunks = 0)
        => /\ calls[c].resp.status_code = HTTP_200_OK
           /\ calls[c].resp.file_size = 0
           /\ FinalPathOf(c) \in DOMAIN audio /\ audio[FinalPathOf(c)] = <<>>
           /\ calls[c].upload_id \notin DOMAIN sessions

\* C30: once a complete call has returned 200 for an upload, no step of any
\* call removes or changes the bytes of its final file.
C30_ArtifactNeverChanges ==
    [][\A u \in UploadIds :
         completions[u] >= 1
         => \A p \in DOMAIN audio :
                p[2] = FileIdOf(u)
                => p \in DOMAIN audio' /\ audio'[p] = audio[p]]_vars

\* --------------------------------------------------------------- delete_upload
\* a file_id that is a proper prefix of the name of every stored file
CommonPrefix == 0

\* filename.startswith(file_id), for the name <file_id of the file><extension>
StartsWith(name_id, file_id) == file_id = CommonPrefix \/ name_id = file_id

\* os.listdir(upload_dir) of uploads/audio/<user_id>; empty when the directory
\* does not exist
Listdir(user_id) == {p \in DOMAIN audio : p[1] = user_id}

DeleteResponse ==
    [NoResponse EXCEPT !.status_code = HTTP_200_OK,
                       !.detail = "File deleted successfully"]

\* The handler awaits nothing: one action. The first listed name that starts
\* with file_id is removed; with none, the 404 is raised inside the try block.
DeleteUpload(c, file_id, user_id) ==
    /\ FreeSlot(c)
    /\ LET call == [IdleCall EXCEPT !.op = "delete", !.pc = "done",
                        !.file_id = file_id, !.user_id = user_id]
           found == {p \in Listdir(user_id) : StartsWith(p[2], file_id)}
       IN
       IF found # {} THEN
           \E p \in found :
               /\ audio' = Drop(audio, p)
               /\ calls' = [calls EXCEPT ![c] =
                      [call EXCEPT !.removed = {p}, !.resp = DeleteResponse]]
       ELSE
           /\ calls' = [calls EXCEPT ![c] =
                  [call EXCEPT
                       !.exc = HTTPException(HTTP_404_NOT_FOUND, "File not found", <<>>),
                       !.resp = ExceptException(
                                    HTTPException(HTTP_404_NOT_FOUND, "File not found", <<>>),
                                    "Failed to delete file")]]
           /\ UNCHANGED audio
    /\ UNCHANGED <<meetingVars, authVars, sessions, chunks, nextId, accepted,
                   reordered, completions, declared>>

\* the file_id values of DELETE requests: a common prefix, upload ids, file ids
DeleteIds == {CommonPrefix} \cup (1 .. MaxUploads)
                 \cup {FileIdOf(u) : u \in 1 .. MaxUploads}

\* one-chunk uploads and DELETE requests of two users, served one at a time
DeleteNext ==
    \E c \in CallIds :
        \/ /\ AllIdle
           /\ Begin(c, 1 .. MaxUploads, Users, Users, {NameWithExt}, {1},
                    {"audio/wav"}, {1}, {1})
           /\ nextId' <= MaxUploads
        \/ /\ AllIdle
           /\ \E file_id \in DeleteIds, user_id \in Users :
                  DeleteUpload(c, file_id, user_id)
        \/ Step(c)
        \/ Return(c)

DeleteSpec == Init /\ [][DeleteNext]_vars

\* the step serves a DELETE request of slot c
DeleteServed(c) == calls[c].pc = "idle" /\ calls'[c].op = "delete"

\* C24: a request that aborts the upload of an existing session, which the
\* router can only serve by its DELETE route, is answered 200 and leaves
\* neither the session file nor a chunk file of that upload; for an upload id
\* without session it is answered 200 and changes nothing.
C24_AbortDeletesSession ==
    [][\A c \in CallIds :
         (DeleteServed(c) /\ calls'[c].file_id \in 1 .. MaxUploads)
         => /\ calls'[c].resp.status_code = HTTP_200_OK
            /\ calls'[c].file_id \notin DOMAIN sessions'
            /\ calls'[c].file_id \notin DOMAIN chunks'
            /\ calls'[c].file_id \notin DOMAIN sessions
                 => UNCHANGED <<sessions, chunks, audio>>]_vars

\* C24, what the code does instead: a session file is removed by no step but
\* the os.remove of a complete call on that upload
C24_OnlyCompleteRemoves ==
    [][\A u \in DOMAIN sessions :
         u \notin DOMAIN sessions'
         => \E c \in CallIds :
                /\ calls[c].op = "complete" /\ calls[c].pc = "c_remove"
                /\ calls[c].upload_id = u]_vars

\* the step serves a DELETE request of slot c for which the caller's
\* directory lists no name starting with the file_id
NothingToDelete(c) ==
    /\ DeleteServed(c)
    /\ \A p \in Listdir(calls'[c].user_id) : ~StartsWith(p[2], calls'[c].file_id)

\* C25: delete_upload for a file_id under which the caller has no stored
\* file is answered 404 "File not found" and removes no file.
C25_NotFoundIs404 ==
    [][\A c \in CallIds :
         NothingToDelete(c)
         => /\ calls'[c].resp.status_code = HTTP_404_NOT_FOUND
            /\ calls'[c].resp.detail = "File not found"
            /\ audio' = audio]_vars

\* C25, as far as the code goes: the 404 is raised inside the try block, the
\* call is not answered 200 and no file is removed
C25_RaisedInside ==
    [][\A c \in CallIds :
         NothingToDelete(c)
         => /\ calls'[c].exc.status_code = HTTP_404_NOT_FOUND
            /\ calls'[c].exc.detail = "File not found"
            /\ calls'[c].resp.status_code # HTTP_200_OK
            /\ calls'[c].removed = {}
            /\ audio' = audio]_vars

\* ------------------------------------------------------------------ meetings
\* meetings created, and requests arriving, in one behaviour
MaxMeetings == 2
MaxTime == 4

MeetingIds == 1 .. MaxMeetings

\* request.title of create_meeting and update_meeting; NoTitle is None
Titles == {"standup"}
NoTitle == ""
\* request.recording_file_id and request.actual_duration of stop_recording
RecordingFiles == {"rec1", "rec2"}
Durations == {1, 2}

\* meeting_data of create_meeting and the columns it leaves empty (None is 0
\* for a time or a number and "" for a string)
NewMeeting(meeting_id, title, user_id, t) ==
    [id |-> meeting_id, title |-> title, status |-> "scheduled",
     user_id |-> user_id, created_at |-> t, actual_start |-> 0,
     actual_end |-> 0, actual_duration |-> 0, recording_file_id |-> "",
     transcript_id |-> "", updated_at |-> 0]

\* the mock data get_meeting returns without Supabase
MockMeeting(meeting_id, user_id, t) ==
    [id |-> meeting_id, title |-> "Sample Meeting", status |-> "completed",
     user_id |-> user_id, created_at |-> t, actual_start |-> t,
     actual_end |-> 0, actual_duration |-> 45,
     recording_file_id |-> "mock-file-123",
     transcript_id |-> "mock-transcript-123", updated_at |-> 0]

\* .update(update_data) on one row
ApplyUpdate(row, update_data) ==
    [f \in DOMAIN row |-> IF f \in DOMAIN update_data THEN update_data[f] ELSE row[f]]

\* .eq("id", meeting_id).eq("user_id", current_user.user_id): the ids of the
\* rows the statement selects
Matching(meeting_id, user_id) ==
    {m \in DOMAIN meetings : m = meeting_id /\ meetings[m].user_id = user_id}

\* return MeetingResponse(**row)
MeetingResponse(row) ==
    [NoMeetingResponse EXCEPT !.status_code = HTTP_200_OK,
                              !.meeting = <<row>>, !.meeting_id = row.id,
                              !.status = row.status]

\* raise HTTPException(status_code, detail), which leaves the handler as it is
MeetingError(status_code, detail) ==
    [NoMeetingResponse EXCEPT !.status_code = status_code, !.detail = detail]

\* {"message": ..., "meeting_id": ..., "started_at" / "stopped_at": ...,
\*  "duration": ..., "status": ...}
RecordingResponse(message, meeting_id, at, duration, new_status) ==
    [NoMeetingResponse EXCEPT !.status_code = HTTP_200_OK, !.detail = message,
                              !.meeting_id = meeting_id, !.at = at,
                              !.duration = duration, !.status = new_status]

MIdle(c) == mcalls[c].pc = "idle"
MFreeSlot(c) == MIdle(c) /\ \A d \in CallIds : d < c => ~MIdle(d)
AllMIdle == \A c \in CallIds : MIdle(c)
MDone(c, op) == mcalls[c].op = op /\ mcalls[c].pc = "done"

MFinish(c, r) == mcalls' = [mcalls EXCEPT ![c] = [@ EXCEPT !.pc = "done", !.resp = r]]

\* a request arrives: the clock has moved on
Tick == now < MaxTime /\ now' = now + 1

\* create_meeting: one statement, or none without Supabase
CreateMeeting(c, user_id, title) ==
    /\ MFreeSlot(c)
    /\ nextMeeting < MaxMeetings
    /\ Tick
    /\ LET meeting_id == nextMeeting + 1
           meeting_data == NewMeeting(meeting_id, title, user_id, now')
           call == [IdleMeetingCall EXCEPT !.op = "create_meeting", !.pc = "done",
                        !.meeting_id = meeting_id, !.user_id = user_id,
                        !.title = title, !.resp = MeetingResponse(meeting_data)]
       IN /\ nextMeeting' = meeting_id
          /\ mcalls' = [mcalls EXCEPT ![c] = call]
          /\ IF ~supabase THEN UNCHANGED meetings
             ELSE meetings' = Put(meetings, meeting_id, meeting_data)
    /\ UNCHANGED <<uploadVars, authVars, supabase>>

BeginStartRecording(c, meeting_id, user_id) ==
    /\ MFreeSlot(c)
    /\ Tick
    /\ mcalls' = [mcalls EXCEPT ![c] =
           [IdleMeetingCall EXCEPT !.op = "start_recording", !.pc = "m_get",
                !.meeting_id = meeting_id, !.user_id = user_id]]
    /\ UNCHANGED <<uploadVars, authVars, supabase, meetings, nextMeeting>>

BeginStopRecording(c, meeting_id, user_id, recording_file_id, actual_duration) ==
    /\ MFreeSlot(c)
    /\ Tick
    /\ mcalls' = [mcalls EXCEPT ![c] =
           [IdleMeetingCall EXCEPT !.op = "stop_recording", !.pc = "m_get",
                !.meeting_id = meeting_id, !.user_id = user_id,
                !.recording_file_id = recording_file_id,
                !.actual_duration = actual_duration]]
    /\ UNCHANGED <<uploadVars, authVars, supabase, meetings, nextMeeting>>

BeginUpdateMeeting(c, meeting_id, user_id, title) ==
    /\ MFreeSlot(c)
    /\ Tick
    /\ mcalls' = [mcalls EXCEPT ![c] =
           [IdleMeetingCall EXCEPT !.op = "update_meeting", !.pc = "m_get",
                !.meeting_id = meeting_id, !.user_id = user_id,
                !.title = title]]
    /\ UNCHANGED <<uploadVars, authVars, supabase, meetings, nextMeeting>>

\* meeting = await get_meeting(meeting_id, current_user): the select
\* statement, or the mock data without Supabase
GetMeeting(c) ==
    /\ mcalls[c].pc = "m_get"
    /\ IF ~supabase THEN
           mcalls' = [mcalls EXCEPT ![c].pc = "m_update",
                                    ![c].meeting =
                          <<MockMeeting(mcalls[c].meeting_id, mcalls[c].user_id, now)>>]
       ELSE IF Matching(mcalls[c].meeting_id, mcalls[c].user_id) = {} THEN
           MFinish(c, MeetingError(HTTP_404_NOT_FOUND, "Meeting not found"))
       ELSE
           mcalls' = [mcalls EXCEPT ![c].pc = "m_update",
                                    ![c].meeting = <<meetings[mcalls[c].meeting_id]>>]
    /\ UNCHANGED <<uploadVars, authVars, supabase, meetings, nextMeeting, now>>

NeverRecording(meeting) == FALSE

\* meeting.status == "recording"
AlreadyRecording(meeting) == meeting.status = "recording"

StartAsProcessing(t) ==
    [status |-> "processing", actual_start |-> t, updated_at |-> t]

\* update_data of start_recording
StartUpdateData(t) ==
    [status |-> "recording", actual_start |-> t, updated_at |-> t]

\* start_recording after get_meeting: the status check and the update statement
StartRecording(c) ==
    /\ mcalls[c].op = "start_recording" /\ mcalls[c].pc = "m_update"
    /\ LET meeting_id == mcalls[c].meeting_id
           update_data == StartUpdateData(now)
           rows == Matching(meeting_id, mcalls[c].user_id)
           started == RecordingResponse("Recording started", meeting_id,
                                        update_data.actual_start, 0, "recording")
       IN
       IF AlreadyRecording(mcalls[c].meeting[1]) THEN
           /\ MFinish(c, MeetingError(HTTP_400_BAD_REQUEST,
                                      "Meeting is already being recorded"))
           /\ UNCHANGED meetings
       ELSE IF ~supabase THEN
           /\ MFinish(c, started)
           /\ UNCHANGED meetings
       ELSE IF rows = {} THEN
           /\ MFinish(c, MeetingError(HTTP_500_INTERNAL_SERVER_ERROR,
                                      "Failed to start recording"))
           /\ UNCHANGED meetings
       ELSE
           /\ meetings' = [m \in DOMAIN meetings |->
                             IF m \in rows THEN ApplyUpdate(meetings[m], update_data)
                             ELSE meetings[m]]
           /\ MFinish(c, started)
    /\ UNCHANGED <<uploadVars, authVars, supabase, nextMeeting, now>>

StopStatusOnly(recording_file_id, actual_duration, t) ==
    [status |-> "processing", actual_end |-> t, updated_at |-> t]

\* update_data of stop_recording
StopUpdateData(recording_file_id, actual_duration, t) ==
    [status |-> "processing", actual_end |-> t,
     actual_duration |-> actual_duration,
     recording_file_id |-> recording_file_id, updated_at |-> t]

\* stop_recording after get_meeting: the status check and the update statement
StopRecording(c) ==
    /\ mcalls[c].op = "stop_recording" /\ mcalls[c].pc = "m_update"
    /\ LET meeting_id == mcalls[c].meeting_id
           update_data == StopUpdateData(mcalls[c].recording_file_id,
                                         mcalls[c].actual_duration, now)
           rows == Matching(meeting_id, mcalls[c].user_id)
           stopped == RecordingResponse("Recording stopped", meeting_id,
                                        update_data.actual_end,
                                        mcalls[c].actual_duration, "processing")
       IN
       IF mcalls[c].meeting[1].status # "recording" THEN
           /\ MFinish(c, MeetingError(HTTP_400_BAD_REQUEST,
                                      "Meeting is not currently being recorded"))
           /\ UNCHANGED meetings
       ELSE IF ~supabase THEN
           /\ MFinish(c, stopped)
           /\ UNCHANGED meetings
       ELSE IF rows = {} THEN
           /\ MFinish(c, MeetingError(HTTP_500_INTERNAL_SERVER_ERROR,
                                      "Failed to stop recording"))
           /\ UNCHANGED meetings
       ELSE
           /\ meetings' = [m \in DOMAIN meetings |->
                             IF m \in rows THEN ApplyUpdate(meetings[m], update_data)
                             ELSE meetings[m]]
           /\ MFinish(c, stopped)
    /\ UNCHANGED <<uploadVars, authVars, supabase, nextMeeting, now>>

\* update_meeting after get_meeting: update_data holds the title when the
\* request gives one, and updated_at
UpdateMeeting(c) ==
    /\ mcalls[c].op = "update_meeting" /\ mcalls[c].pc = "m_update"
    /\ LET meeting_id == mcalls[c].meeting_id
           current_meeting == mcalls[c].meeting[1]
           update_data == [title |-> mcalls[c].title, updated_at |-> now]
           rows == Matching(meeting_id, mcalls[c].user_id)
       IN
       IF mcalls[c].title = NoTitle THEN
           /\ MFinish(c, MeetingResponse(current_meeting))
           /\ UNCHANGED meetings
       ELSE IF ~supabase THEN
           /\ MFinish(c, MeetingResponse(ApplyUpdate(current_meeting, update_data)))
           /\ UNCHANGED meetings
       ELSE IF rows = {} THEN
           /\ MFinish(c, MeetingError(HTTP_404_NOT_FOUND,
                                      "Meeting not found or update failed"))
           /\ UNCHANGED meetings
       ELSE
           /\ meetings' = [m \in DOMAIN meetings |->
                             IF m \in rows THEN ApplyUpdate(meetings[m], update_data)
                             ELSE meetings[m]]
           /\ MFinish(c, MeetingResponse(ApplyUpdate(meetings[meeting_id], update_data)))
    /\ UNCHANGED <<uploadVars, authVars, supabase, nextMeeting, now>>

\* the response has left: the slot is free again
MeetingReturn(c) ==
    /\ mcalls[c].pc = "done"
    /\ mcalls' = [mcalls EXCEPT ![c] = IdleMeetingCall]
    /\ UNCHANGED <<uploadVars, authVars, supabase, meetings, nextMeeting, now>>

MeetingBegin(c) ==
    \/ \E user_id \in Users, title \in Titles : CreateMeeting(c, user_id, title)
    \/ \E meeting_id \in MeetingIds, user_id \in Users :
           BeginStartRecording(c, meeting_id, user_id)
    \/ \E meeting_id \in MeetingIds, user_id \in Users,
          recording_file_id \in RecordingFiles, actual_duration \in Durations :
           BeginStopRecording(c, meeting_id, user_id, recording_file_id,
                              actual_duration)
    \/ \E meeting_id \in MeetingIds, user_id \in Users,
          title \in Titles \cup {NoTitle} :
           BeginUpdateMeeting(c, meeting_id, user_id, title)

MeetingStep(c) ==
    \/ GetMeeting(c)
    \/ StartRecording(c)
    \/ StopRecording(c)
    \/ UpdateMeeting(c)

\* meetings requests of two users served one at a time, with and without
\* the Supabase client
MeetingSeqNext ==
    \E c \in CallIds :
        \/ AllMIdle /\ MeetingBegin(c)
        \/ MeetingStep(c)
        \/ MeetingReturn(c)

\* the Supabase client configured or not
MeetingSeqInit == UploadInit /\ MeetingInit(BOOLEAN) /\ AuthInit

MeetingSeqSpec == MeetingSeqInit /\ [][MeetingSeqNext]_vars

\* the start_recording or stop_recording call c has ended after get_meeting
\* returned a meeting
RecordingCallDone(c, op) == MDone(c, op) /\ mcalls[c].meeting # <<>>

\* the row of the meeting call c named is as get_meeting returned it to c
RowAsRead(c) ==
    /\ mcalls[c].meeting_id \in DOMAIN meetings
    /\ meetings[mcalls[c].meeting_id] = mcalls[c].meeting[1]

\* C26: start_recording on a meeting whose status is "recording" is answered
\* 400 "Meeting is already being recorded", and stop_recording on a meeting
\* whose status is not "recording" is answered 400 "Meeting is not currently
\* being recorded"; the meeting's row (status and actual_start included) is
\* then as it was read.
C26_WrongStatusRejected ==
    \A c \in CallIds :
        /\ (RecordingCallDone(c, "start_recording")
            /\ mcalls[c].meeting[1].status = "recording")
           => /\ mcalls[c].resp.status_code = HTTP_400_BAD_REQUEST
              /\ mcalls[c].resp.detail = "Meeting is already being recorded"
              /\ supabase => RowAsRead(c)
        /\ (RecordingCallDone(c, "stop_recording")
            /\ mcalls[c].meeting[1].status # "recording")
           => /\ mcalls[c].resp.status_code = HTTP_400_BAD_REQUEST
              /\ mcalls[c].resp.detail = "Meeting is not currently being recorded"
              /\ supabase => RowAsRead(c)

\* C26 witness: start_recording was refused on a meeting that has been
\* recording since an earlier time
C26_Witness ==
    \E c \in CallIds :
        /\ RecordingCallDone(c, "start_recording")
        /\ mcalls[c].meeting[1].status = "recording"
        /\ mcalls[c].meeting[1].actual_start < now
        /\ mcalls[c].resp.status_code = HTTP_400_BAD_REQUEST

\* C27: create_meeting answers with status "scheduled" and stores the row so;
\* a start_recording answered 200 leaves the row with status "recording" and
\* the time of the call as actual_start; a stop_recording answered 200 was
\* made on a recording meeting and leaves the row with status "processing" and
\* the recording_file_id and actual_duration of the request. (Without the
\* Supabase client no row is stored; the answers are the same.)
C27_StatusFollowsCalls ==
    \A c \in CallIds :
        LET m == mcalls[c].meeting_id
            ok == mcalls[c].resp.status_code = HTTP_200_OK
        IN /\ MDone(c, "create_meeting")
              => /\ ok /\ mcalls[c].resp.status = "scheduled"
                 /\ supabase => (m \in DOMAIN meetings
                                   /\ meetings[m].status = "scheduled")
           /\ (MDone(c, "start_recording") /\ ok)
              => /\ mcalls[c].resp.status = "recording"
                 /\ supabase => (/\ m \in DOMAIN meetings
                                   /\ meetings[m].status = "recording"
                                   /\ meetings[m].actual_start = now)
           /\ (MDone(c, "stop_recording") /\ ok)
              => /\ mcalls[c].resp.status = "processing"
                 /\ mcalls[c].meeting[1].status = "recording"
                 /\ supabase
                      => (/\ m \in DOMAIN meetings
                          /\ meetings[m].status = "processing"
                          /\ meetings[m].recording_file_id = mcalls[c].recording_file_id
                          /\ meetings[m].actual_duration = mcalls[c].actual_duration)

\* C27 witness: a stored meeting went from scheduled through recording to
\* processing, with the file and duration of the stop request
C27_Witness ==
    \E c \in CallIds :
        /\ supabase /\ MDone(c, "stop_recording")
        /\ mcalls[c].resp.status_code = HTTP_200_OK
        /\ mcalls[c].recording_file_id = "rec2" /\ mcalls[c].actual_duration = 2
        /\ meetings[mcalls[c].meeting_id].status = "processing"
        /\ meetings[mcalls[c].meeting_id].actual_start > meetings[mcalls[c].meeting_id].created_at

\* ---------------------------------------------------------------- JWTHandler
HTTP_401_UNAUTHORIZED == 401

\* payload.get("sub") and payload.get("type") of the tokens presented; "none"
\* is a payload without the key
Subjects == {"u1", "u2", "none"}
TokenTypes == {"access", "refresh", "none"}

\* A token is modelled by what jwt.decode finds in it: whether the signature
\* was made with secret_key, whether exp has passed, and the payload.
Tokens == [signed : BOOLEAN, expired : BOOLEAN, type : TokenTypes, sub : Subjects]

\* jwt.encode(to_encode, secret_key) with "exp" in the future and "type" set
CreateAccessToken(data) ==
    [signed |-> TRUE, expired |-> FALSE, type |-> "access", sub |-> data.sub]

CreateRefreshToken(data) ==
    [signed |-> TRUE, expired |-> FALSE, type |-> "refresh", sub |-> data.sub]

\* raise HTTPException(status_code=401, detail=...)
Unauthorized(detail) ==
    [ok |-> FALSE, status_code |-> HTTP_401_UNAUTHORIZED, detail |-> detail,
     user_id |-> "", issued |-> <<>>]

\* return token_data
Verified(user_id) ==
    [ok |-> TRUE, status_code |-> 0, detail |-> <<>>, user_id |-> user_id,
     issued |-> <<>>]

AnyType(payload, token_type) == FALSE

\* payload.get("type") != token_type
WrongType(payload, token_type) == payload.type # token_type

\* verify_token: jwt.decode checks the signature, then exp; then the type and
\* the subject are checked
VerifyTokenResult(token, token_type) ==
    IF ~token.signed THEN Unauthorized(<<"Could not validate credentials">>)
    ELSE IF token.expired THEN Unauthorized(<<"Token has expired">>)
    ELSE IF WrongType(token, token_type)
         THEN Unauthorized(<<"Invalid token type. Expected", token_type>>)
    ELSE IF token.sub = "none"
         THEN Unauthorized(<<"Could not validate credentials">>)
    ELSE Verified(token.sub)

\* refresh_access_token: the exception of verify_token leaves the function
RefreshAccessTokenResult(refresh_token) ==
    LET token_data == VerifyTokenResult(refresh_token, "refresh")
    IN IF token_data.ok
       THEN [token_data EXCEPT !.issued =
                <<CreateAccessToken([sub |-> token_data.user_id])>>]
       ELSE token_data

AuthCall(op, token, token_type, result) ==
    [op |-> op, token |-> token, token_type |-> token_type, ok |-> result.ok,
     status_code |-> result.status_code, detail |-> result.detail,
     user_id |-> result.user_id, issued |-> result.issued]

\* create_access_token / create_refresh_token for a user
CreateToken(token_type, user_id) ==
    /\ auth' = AuthCall("create", <<>>, token_type,
                   [Verified(user_id) EXCEPT !.issued =
                        <<IF token_type = "access"
                          THEN CreateAccessToken([sub |-> user_id])
                          ELSE CreateRefreshToken([sub |-> user_id])>>])
    /\ UNCHANGED <<uploadVars, meetingVars>>

VerifyToken(token, token_type) ==
    /\ auth' = AuthCall("verify_token", <<token>>, token_type,
                        VerifyTokenResult(token, token_type))
    /\ UNCHANGED <<uploadVars, meetingVars>>

RefreshAccessToken(refresh_token) ==
    /\ auth' = AuthCall("refresh_access_token", <<refresh_token>>, "refresh",
                        RefreshAccessTokenResult(refresh_token))
    /\ UNCHANGED <<uploadVars, meetingVars>>

\* the JWT handler called with every token and expected type
AuthNext ==
    \/ \E token_type \in {"access", "refresh"}, user_id \in Users :
           CreateToken(token_type, user_id)
    \/ \E token \in Tokens, token_type \in {"access", "refresh"} :
           VerifyToken(token, token_type)
    \/ \E token \in Tokens : RefreshAccessToken(token)

AuthSpec == Init /\ [][AuthNext]_vars

\* jwt.decode accepts the token of the last call
Decodes == auth.token # <<>> /\ auth.token[1].signed /\ ~auth.token[1].expired

\* C28: verify_token returns token data only for a token whose type is the
\* expected one; a decodable token of another type (an access token where a
\* refresh token is expected, a refresh token where an access token is
\* expected) is rejected with 401 "Invalid token type. Expected <type>", and
\* refresh_access_token issues a token only from a refresh token.
C28_TokenTypeChecked ==
    /\ (auth.op = "verify_token" /\ auth.ok)
       => auth.token[1].type = auth.token_type
    /\ (auth.op \in {"verify_token", "refresh_access_token"}
        /\ auth.token[1].type # auth.token_type)
       => /\ ~auth.ok /\ auth.status_code = HTTP_401_UNAUTHORIZED
          /\ Decodes => auth.detail = <<"Invalid token type. Expected", auth.token_type>>
    /\ (auth.op = "refresh_access_token" /\ auth.issued # <<>>)
       => /\ auth.token[1].type = "refresh"
          /\ auth.issued[1].type = "access"
          /\ auth.issued[1].sub = auth.token[1].sub

\* C28 witness: refresh_access_token was called with a token that
\* create_access_token issued, and issued nothing
C28_Witness ==
    /\ auth.op = "refresh_access_token"
    /\ auth.token = <<CreateAccessToken([sub |-> "u1"])>>
    /\ auth.issued = <<>>
    /\ auth.detail = <<"Invalid token type. Expected", "refresh">>

\* every element of lst is smaller than the next one
StrictlyAscending(lst) ==
    \A i \in 1 .. (Len(lst) - 1) : lst[i] < lst[i + 1]

\* C31: the uploaded_chunks list of every session file is strictly
\* ascending, however upload_chunk calls interleave, so that it equals
\* [1..total_chunks] exactly when its set of numbers is {1..total_chunks}.
C31_ReceivedListAscending ==
    \A u \in DOMAIN sessions :
        /\ StrictlyAscending(sessions[u].uploaded_chunks)
        /\ (sessions[u].uploaded_chunks = RangeList(sessions[u].total_chunks))
              <=> (Range(sessions[u].uploaded_chunks) = 1 .. sessions[u].total_chunks)

\* C31 witness: every chunk is listed, and a chunk was committed before a
\* lower-numbered one
C31_Witness ==
    \E u \in DOMAIN sessions :
        /\ reordered[u]
        /\ Len(sessions[u].uploaded_chunks) = MaxChunks
        /\ sessions[u].uploaded_chunks = RangeList(sessions[u].total_chunks)

\* the session record without its received list
FixedFields(session_data) == [session_data EXCEPT !.uploaded_chunks = <<>>]

\* C32: a session file keeps its upload_id, file_id, user_id, filename,
\* file_size, mime_type, chunk_size, total_chunks and created_at from the
\* start request on, in every state in which it exists: steps of upload_chunk
\* change its uploaded_chunks only.
C32_OnlyReceivedListChanges ==
    /\ [](\A u \in DOMAIN sessions :
            /\ sessions[u].upload_id = u
            /\ sessions[u].file_id = declared[u].file_id
            /\ sessions[u].filename = declared[u].filename
            /\ sessions[u].total_chunks = declared[u].total_chunks)
    /\ [][\A u \in DOMAIN sessions :
            u \in DOMAIN sessions'
            => FixedFields(sessions'[u]) = FixedFields(sessions[u])]_vars

\* C32 witness: upload_chunk has stored chunk 1 of a session and written the
\* session file
C32_Witness ==
    \E c \in CallIds :
        /\ Done(c, "upload_chunk") /\ calls[c].resp.bytes_received = 1
        /\ calls[c].upload_id \in DOMAIN sessions
        /\ sessions[calls[c].upload_id].uploaded_chunks = <<1>>
        /\ sessions[calls[c].upload_id].filename = NameWithExt

\* session file, chunk directory and final file of upload u are the same
\* before and after the step
SameUpload(u) ==
    /\ (u \in DOMAIN sessions) <=> (u \in DOMAIN sessions')
    /\ u \in DOMAIN sessions => sessions'[u] = sessions[u]
    /\ (u \in DOMAIN chunks) <=> (u \in DOMAIN chunks')
    /\ u \in DOMAIN chunks => chunks'[u] = chunks[u]
    /\ \A p \in (DOMAIN audio) \cup (DOMAIN audio') :
           p[2] = FileIdOf(u)
           => /\ p \in DOMAIN audio /\ p \in DOMAIN audio'
              /\ audio'[p] = audio[p]

\* C33: a step of an upload_chunk or complete call on one upload_id changes
\* neither the session file, nor a chunk file, nor the final file of a
\* session with another upload_id, however the calls interleave.
C33_SessionsIsolated ==
    [][\A c \in CallIds :
         (InFlight(c) /\ calls'[c] # calls[c])
         => \A u \in UploadIds \ {calls[c].upload_id} : SameUpload(u)]_vars

\* C33 witness: upload 1 was completed and its files removed while a call on
\* upload 2 is in flight, and session 2 still has its session file and chunk
C33_Witness ==
    /\ completions[1] = 1 /\ 1 \notin DOMAIN sessions /\ 1 \notin DOMAIN chunks
    /\ 2 \in DOMAIN sessions /\ sessions[2].uploaded_chunks = <<1>>
    /\ 2 \in DOMAIN chunks /\ DOMAIN chunks[2] = {1}
    /\ \E c \in CallIds : InFlight(c) /\ calls[c].upload_id = 2

\* the step is the death of the upload_chunk call c after its chunk file was
\* written and before its session file was
DiesBeforeCommit(c) ==
    /\ calls[c].op = "upload_chunk" /\ calls[c].pc = "u_commit"
    /\ calls'[c].pc = "idle"

\* C34: when an upload_chunk call dies after writing its chunk file and
\* before writing the session file, the number is not in the received list;
\* a later upload_chunk call for the number, which finds the chunk file of the
\* dead call, is processed as a fresh upload: the chunk file holds its bytes
\* and nothing else, bytes_received is their length, and the number is in the
\* received list.
C34_CrashLeavesChunkReuploadable ==
    /\ [][\A c \in CallIds :
            DiesBeforeCommit(c)
            => /\ calls[c].upload_id \in DOMAIN sessions'
               /\ calls[c].chunk_number
                     \notin Range(sessions'[calls[c].upload_id].uploaded_chunks)]_vars
    /\ [](\A c \in CallIds :
            (Done(c, "upload_chunk") /\ calls[c].replaced)
            => LET u == calls[c].upload_id
                   k == calls[c].chunk_number
               IN /\ calls[c].resp.status_code = HTTP_200_OK
                  /\ calls[c].resp.bytes_received = Len(calls[c].content)
                  /\ u \in DOMAIN chunks /\ k \in DOMAIN chunks[u]
                  /\ chunks[u][k] = calls[c].content
                  /\ u \in DOMAIN sessions
                  /\ Occurrences(sessions[u].uploaded_chunks, k) = 1)

\* C34 witness: a call stored 1 byte over the chunk file a dead call left
C34_Witness ==
    \E c \in CallIds :
        /\ Done(c, "upload_chunk") /\ calls[c].replaced
        /\ calls[c].content = <<1>>
        /\ calls[c].resp.bytes_received = 1
        /\ chunks[calls[c].upload_id][calls[c].chunk_number] = <<1>>

\* the step is the update statement (or the refusal) of the call c of
\* handler op on meeting m
UpdateStepOf(c, op, m) ==
    /\ mcalls[c].op = op /\ mcalls[c].pc = "m_update"
    /\ mcalls[c].meeting_id = m
    /\ mcalls'[c].pc = "done"

StartRaceNext ==
    \E c \in CallIds :
        \/ \E user_id \in Users, title \in Titles : CreateMeeting(c, user_id, title)
        \/ \E meeting_id \in MeetingIds, user_id \in Users :
               BeginStartRecording(c, meeting_id, user_id)
        \/ GetMeeting(c)
        \/ StartRecording(c)
        \/ MeetingReturn(c)

\* the Supabase client configured
StartRaceInit == UploadInit /\ MeetingInit({TRUE}) /\ AuthInit

StartRaceSpec == StartRaceInit /\ [][StartRaceNext]_vars

\* C36: of two start_recording calls for the same meeting that run at the
\* same time, at most one is answered 200 and the other is answered 400
\* "Meeting is already being recorded"; once set, the meeting's actual_start
\* is not written again.
C36_OneStartWins ==
    /\ [](\A c, d \in CallIds :
            (/\ c # d
             /\ RecordingCallDone(c, "start_recording")
             /\ RecordingCallDone(d, "start_recording")
             /\ mcalls[c].meeting_id = mcalls[d].meeting_id
             /\ mcalls[c].resp.status_code = HTTP_200_OK)
            => /\ mcalls[d].resp.status_code = HTTP_400_BAD_REQUEST
               /\ mcalls[d].resp.detail = "Meeting is already being recorded")
    /\ [][\A m \in DOMAIN meetings :
            meetings[m].actual_start # 0
            => meetings'[m].actual_start = meetings[m].actual_start]_vars

====
